---- MODULE Spec2Model ----
(***************************************************************************)
(* Request lifecycle of the platform onboarding portal.                    *)
(*                                                                         *)
(* The store holds applications (id = position in apps), their child       *)
(* environments, their audit entries and their timeline events.  Every     *)
(* HTTP handler of app/api.py that mutates the lifecycle is one action; a  *)
(* handler takes a fault point as input: the number of its commits that    *)
(* succeed before the storage layer raises (NoFault: none raises).  Spec   *)
(* is the portal on a store that never fails, SpecFault the portal on a    *)
(* store that may fail MaxFaults times.                                    *)
(* SpecFirewall, SpecPriority, SpecScopes and SpecFirewallFault are the    *)
(* firewall requests of app/services/firewall_request_service.py, SpecRace *)
(* two requests that run concurrently, SpecPorts a validator of            *)
(* app/schemas.py applied to its inputs, SpecLifecycleRace approve/reject  *)
(* and cancel requests that run concurrently, SpecKeys the duplicate key   *)
(* of two rules.                                                           *)
(***************************************************************************)
EXTENDS Integers, Sequences, FiniteSets, TLC

VARIABLES apps, envs, audits, timeline, resp, faults, fw, inflight, call

vars == <<apps, envs, audits, timeline, resp, faults, fw, inflight, call>>

----------------------------------------------------------------------------
(* Bounds *)

MaxApps == 1
MaxTimeline == 14
MaxFailed == 1
MaxAudit == 5
MaxUpdates == 1
MaxFaults == 1
MaxProcs == 2
MaxRules == 2
MaxFw == 2
MaxFwApps == 4
MaxRaceApps == 3

----------------------------------------------------------------------------
(* Inputs *)

None == "None"

Users == {"alice@tradex.com", "bob@tradex.com", "admin@tradex.com"}

\* the users who raise requests
Requesters == {"alice@tradex.com"}

admin_emails == {"admin@tradex.com"}

\* the slugs the requests name
Slugs == {"acme1"}

EnvNames == {"DEVELOPMENT", "PRODUCTION"}

SubIds == {"sub-1"}

NoFault == 99

\* mutant of is_admin: every caller but the requester passes as administrator
is_admin_NotRequester(user_email) == user_email \notin Requesters

\* AuthService.is_admin
is_admin(user_email) == user_email \in admin_emails

----------------------------------------------------------------------------
(* Enumerations *)

RequestStatus ==
    {"DRAFT", "PENDING", "APPROVED", "REJECTED", "CANCELLED",
     "SUBSCRIPTION_ASSIGNED", "FOUNDATION_INFRA_PROVISIONING",
     "FOUNDATION_INFRA_COMPLETED", "INFRASTRUCTURE_PROVISIONING",
     "INFRASTRUCTURE_COMPLETED", "COMPLETED", "FAILED"}

WorkflowStage ==
    {"REQUEST_RAISED", "PENDING_APPROVAL", "APPROVED",
     "SUBSCRIPTION_ASSIGNMENT", "FOUNDATION_INFRA", "INFRASTRUCTURE",
     "NETWORK_REVIEW", "RULE_COLLECTION_BUILD", "RULE_DEPLOYMENT",
     "HANDOVER", "REJECTED", "CANCELLED"}

RequestTimeline(stage, status) == [stage |-> stage, status |-> status]

RequestAudit(request_type, user_email) == [request_type |-> request_type]

AppEnvironment ==
    [is_assigned |-> FALSE, subscription_id |-> None, assigned_by |-> None]

Response(op, id, code) == [op |-> op, id |-> id, code |-> code]

----------------------------------------------------------------------------
(* Store *)

AppIds == 1..Len(apps)

Exists(id) == id \in AppIds

AllIds == 1..MaxApps

\* the requests that may be in progress at the same time
Procs == 1..MaxProcs

\* no request in progress
Idle == [kind |-> "idle"]

\* no validator of app/schemas.py under evaluation
NoCall == [fn |-> "none"]

Init ==
    /\ apps = <<>>
    /\ envs = <<>>
    /\ audits = <<>>
    /\ timeline = <<>>
    /\ resp = Response("init", 0, 0)
    /\ faults = 0
    /\ fw = <<>>
    /\ inflight = [p \in Procs |-> Idle]
    /\ call = NoCall

\* the first n elements of s (none when n <= 0, all when n >= Len(s))
Take(s, n) ==
    IF n <= 0 THEN <<>> ELSE SubSeq(s, 1, IF n < Len(s) THEN n ELSE Len(s))

Max(S) == CHOOSE x \in S : \A y \in S : y <= x

\* outcome of a service or handler body: the exception raised (None when it
\* returns) and the store it leaves behind
Outcome(err, a, e, au, tl, faulted) ==
    [err |-> err, apps |-> a, envs |-> e, audits |-> au, timeline |-> tl,
     faulted |-> faulted, fw |-> fw]

Raise(err) == Outcome(err, apps, envs, audits, timeline, FALSE)

\* the storage layer raises in commit before anything of it is persisted
RaiseFault == Outcome("Exception", apps, envs, audits, timeline, TRUE)

\* mutant of UniqueViolation: only app_code is unique
UniqueViolation_CodeOnly(id, app) ==
    \E j \in AppIds \ {id} : apps[j].app_code = app.app_code

\* unique=True on Application.app_code and Application.app_slug
UniqueViolation(id, app) ==
    \E j \in AppIds \ {id} :
        \/ apps[j].app_code = app.app_code
        \/ app.app_slug # None /\ apps[j].app_slug = app.app_slug

\* mutant of CommitEach: the new timeline events replace the stored ones
CommitEach_Replace(id, app, newAudits, newEvents, fault) ==
    LET total == 1 + Len(newAudits) + Len(newEvents)
        integrity == UniqueViolation(id, app)
        done == IF fault < total THEN fault ELSE total
    IN  IF integrity THEN Raise("Exception")
        ELSE IF done = 0 THEN RaiseFault
        ELSE Outcome(IF done < total THEN "Exception" ELSE None,
                     [apps EXCEPT ![id] = app],
                     envs,
                     [audits EXCEPT ![id] = @ \o Take(newAudits, done - 1)],
                     [timeline EXCEPT ![id] =
                         Take(newEvents, done - 1 - Len(newAudits))],
                     done < total)

\* BaseRepository.commit called once per write: the application row first,
\* then one commit per audit entry, then one per timeline event.  fault is
\* the number of commits that succeed before the storage layer raises.
CommitEach(id, app, newAudits, newEvents, fault) ==
    LET total == 1 + Len(newAudits) + Len(newEvents)
        integrity == UniqueViolation(id, app)
        done == IF fault < total THEN fault ELSE total
    IN  IF integrity THEN Raise("Exception")
        ELSE IF done = 0 THEN RaiseFault
        ELSE Outcome(IF done < total THEN "Exception" ELSE None,
                     [apps EXCEPT ![id] = app],
                     envs,
                     [audits EXCEPT ![id] = @ \o Take(newAudits, done - 1)],
                     [timeline EXCEPT ![id] =
                         @ \o Take(newEvents, done - 1 - Len(newAudits))],
                     done < total)

\* db.session.commit() called once for the whole handler
CommitOnce(id, app, newEnvs, newEvents, fault) ==
    IF fault = 0 THEN RaiseFault
    ELSE Outcome(None,
                 [apps EXCEPT ![id] = app],
                 [envs EXCEPT ![id] = newEnvs],
                 audits,
                 [timeline EXCEPT ![id] = @ \o newEvents],
                 FALSE)

----------------------------------------------------------------------------
(* ApplicationService *)

is_slug_available(slug) == \A j \in AppIds : apps[j].app_slug # slug

prefix_map(request_type) ==
    CASE request_type = "ONBOARDING" -> "APP"
      [] request_type = "FIREWALL" -> "FW"
      [] request_type = "ORGANIZATION" -> "ORG"
      [] request_type = "LOB" -> "LOB"
      [] request_type = "SUBSCRIPTION" -> "SUB"
      [] OTHER -> "REQ"

get_latest_by_type(request_type) ==
    LET S == {j \in AppIds : apps[j].request_type = request_type}
    IN  IF S = {} THEN 0 ELSE Max(S)

\* mutant of _generate_app_code: the suffix counts the applications of the type
_generate_app_code_Count(request_type) ==
    [prefix |-> prefix_map(request_type),
     num |-> Cardinality({j \in AppIds :
                            apps[j].request_type = request_type}) + 1]

\* f"{prefix}-{next_num:05d}", next_num the id of the latest application of
\* the type plus one, or 1
_generate_app_code(request_type) ==
    [prefix |-> prefix_map(request_type),
     num |-> get_latest_by_type(request_type) + 1]

Application(request_type, app_code, app_slug, requested_by, save_as_draft) ==
    [request_type |-> request_type,
     app_code |-> app_code,
     app_slug |-> app_slug,
     status |-> IF save_as_draft THEN "DRAFT" ELSE "PENDING",
     current_stage |->
         IF save_as_draft THEN "REQUEST_RAISED" ELSE "PENDING_APPROVAL",
     is_editable |-> save_as_draft,
     requested_by |-> requested_by,
     approved_by |-> None,
     rejection_reason |-> None,
     cancelled_by |-> None,
     cancellation_reason |-> None,
     cancelled_at |-> None,
     expedite_requested |-> FALSE,
     expedite_reason |-> None]

\* mutant of CreationEvents: a draft records the submission event as well
CreationEvents_Both(save_as_draft) ==
    <<RequestTimeline("REQUEST_RAISED", "COMPLETED"),
      RequestTimeline("PENDING_APPROVAL", "IN_PROGRESS")>>

\* the timeline events of a creation: "Request raised", and "Pending
\* Approval" if not a draft
CreationEvents(save_as_draft) ==
    <<RequestTimeline("REQUEST_RAISED", "COMPLETED")>>
    \o (IF save_as_draft THEN <<>>
        ELSE <<RequestTimeline("PENDING_APPROVAL", "IN_PROGRESS")>>)

\* the writes of create_application: the row with its environments, the
\* audit entry and the timeline events, each in a commit of its own
create_commit(request_type, app_code, app_slug, environments, save_as_draft, requested_by, fault) ==
    LET id == Len(apps) + 1
        app == Application(request_type, app_code, app_slug, requested_by,
                           save_as_draft)
        newAudits == <<RequestAudit("CREATE", requested_by)>>
        newEvents == CreationEvents(save_as_draft)
        total == 1 + Len(newAudits) + Len(newEvents)
        integrity == UniqueViolation(id, app)
        done == IF fault < total THEN fault ELSE total
    IN  IF integrity THEN Raise("Exception")
        ELSE IF done = 0 THEN RaiseFault
        ELSE Outcome(IF done < total THEN "Exception" ELSE None,
                     Append(apps, app),
                     Append(envs, [n \in environments |-> AppEnvironment]),
                     Append(audits, Take(newAudits, done - 1)),
                     Append(timeline,
                            Take(newEvents, done - 1 - Len(newAudits))),
                     done < total)

\* "Validate slug uniqueness for onboarding requests"
SlugTaken(request_type, app_slug) ==
    /\ request_type = "ONBOARDING"
    /\ app_slug # None
    /\ ~is_slug_available(app_slug)

create_application(request_type, app_slug, environments, save_as_draft, requested_by, fault) ==
    IF SlugTaken(request_type, app_slug)
    THEN Raise("ValueError")
    ELSE create_commit(request_type, _generate_app_code(request_type),
                       app_slug, environments, save_as_draft, requested_by,
                       fault)

\* mutants of IsDraft: the status check lets a cancelled, or an already
\* submitted, request through
IsDraft_OrCancelled(application) ==
    application.status \in {"DRAFT", "CANCELLED"}

IsDraft_OrPending(application) == application.status \in {"DRAFT", "PENDING"}

\* "Only draft requests can be submitted for approval"
IsDraft(application) == application.status = "DRAFT"

submit_application(app_id, user_email, admin, fault) ==
    IF ~Exists(app_id) THEN Raise("ValueError")
    ELSE IF ~IsDraft(apps[app_id]) THEN Raise("ValueError")
    ELSE IF apps[app_id].requested_by # user_email /\ ~admin
    THEN Raise("PermissionError")
    ELSE CommitEach(app_id,
                    [apps[app_id] EXCEPT !.status = "PENDING",
                                         !.current_stage = "PENDING_APPROVAL",
                                         !.is_editable = FALSE],
                    <<RequestAudit("SUBMIT", user_email)>>,
                    <<RequestTimeline("PENDING_APPROVAL", "IN_PROGRESS")>>,
                    fault)

\* mutant of IsEditable: a pending request can still be edited
IsEditable_OrPending(application) ==
    application.is_editable \/ application.status = "PENDING"

\* "Application is no longer editable"
IsEditable(application) == application.is_editable

\* mutant of app_data: the handler also passes the requester to the service
app_data_Owner(app_slug) ==
    [request_type |-> "ONBOARDING", app_slug |-> app_slug,
     requested_by |-> "admin@tradex.com"]

\* update_request, "Prepare data for service": the model fields among the keys
app_data(app_slug) ==
    [request_type |-> "ONBOARDING", app_slug |-> app_slug]

\* keys the update loop never sets
ProtectedKeys == {"id", "app_code", "created_at"}

\* for key, value in data.items(): setattr(application, key, value)
setattrs(application, data) ==
    [key \in DOMAIN application |->
        IF key \in DOMAIN data /\ key \notin ProtectedKeys
        THEN data[key] ELSE application[key]]

update_application(app_id, app_slug, save_as_draft, user_email, admin, fault) ==
    IF ~Exists(app_id) THEN Raise("ValueError")
    ELSE IF ~admin /\ apps[app_id].requested_by # user_email
    THEN Raise("PermissionError")
    ELSE IF ~IsEditable(apps[app_id]) THEN Raise("ValueError")
    ELSE
    LET set == setattrs(apps[app_id], app_data(app_slug))
        app == IF save_as_draft
               THEN [set EXCEPT !.status = "DRAFT", !.is_editable = TRUE]
               ELSE [set EXCEPT !.status = "PENDING",
                                !.current_stage = "PENDING_APPROVAL",
                                !.is_editable = FALSE]
    IN  CommitEach(app_id, app, <<RequestAudit("UPDATE", user_email)>>,
                   <<>>, fault)

\* mutant of IsCancellable: an approved request can be cancelled too
IsCancellable_OrApproved(application) ==
    application.status \in {"DRAFT", "PENDING", "APPROVED"}

\* "Check if status allows cancellation"
IsCancellable(application) == application.status \in {"DRAFT", "PENDING"}

\* cancel_application from "Update application" on: the assignments to the
\* row and the commits of the row, the audit entry and the timeline event.
\* The UPDATE of the commit sets the assigned columns of the row as it is
\* stored.
cancel_write(app_id, user_email, cancellation_reason, fault) ==
    CommitEach(app_id,
               [apps[app_id] EXCEPT
                   !.status = "CANCELLED",
                   !.current_stage = "CANCELLED",
                   !.cancelled_by = user_email,
                   !.cancellation_reason = cancellation_reason,
                   !.cancelled_at = "set",
                   !.is_editable = FALSE],
               <<RequestAudit("CANCEL", user_email)>>,
               <<RequestTimeline("CANCELLED", "COMPLETED")>>,
               fault)

cancel_application(app_id, user_email, admin, cancellation_reason, fault) ==
    IF ~Exists(app_id) THEN Raise("ValueError")
    ELSE IF ~admin /\ apps[app_id].requested_by # user_email
    THEN Raise("PermissionError")
    ELSE IF ~IsCancellable(apps[app_id]) THEN Raise("ValueError")
    ELSE cancel_write(app_id, user_email, cancellation_reason, fault)

\* mutant of AlreadyExpedited: the flag is not looked at
AlreadyExpedited_Never(application) == FALSE

\* "Request has already been expedited"
AlreadyExpedited(application) == application.expedite_requested

expedite_application(app_id, user_email, admin, expedite_reason, fault) ==
    IF ~Exists(app_id) THEN Raise("ValueError")
    ELSE IF ~admin /\ apps[app_id].requested_by # user_email
    THEN Raise("PermissionError")
    ELSE IF apps[app_id].status # "PENDING" THEN Raise("ValueError")
    ELSE IF AlreadyExpedited(apps[app_id]) THEN Raise("ValueError")
    ELSE CommitEach(app_id,
                    [apps[app_id] EXCEPT !.expedite_requested = TRUE,
                                         !.expedite_reason = expedite_reason],
                    <<RequestAudit("EXPEDITE", user_email)>>,
                    <<RequestTimeline(apps[app_id].current_stage,
                                      "IN_PROGRESS")>>,
                    fault)

----------------------------------------------------------------------------
(* Handlers of app/api.py that go through ApplicationService: the request  *)
(* body is validated, the service is called and its exception, if any, is  *)
(* turned into the HTTP status.                                            *)

HttpCode(err, ok) ==
    CASE err = None -> ok
      [] err = "ValidationError" -> 400
      [] err = "PermissionError" -> 403
      [] err = "ValueError" -> 400
      [] err = "BadRequest" -> 400
      [] err = "Forbidden" -> 403
      [] err = "NotFound" -> 404
      [] err = "DuplicateFirewallRuleError" -> 409
      [] OTHER -> 500

create_request(user_email, app_slug, environments, save_as_draft, fault) ==
    IF environments = {}
    THEN Raise("ValidationError")
    ELSE create_application("ONBOARDING", app_slug, environments,
                            save_as_draft, user_email, fault)

submit_request(request_id, user_email, fault) ==
    submit_application(request_id, user_email, is_admin(user_email), fault)

update_request(request_id, user_email, app_slug, environments, save_as_draft, fault) ==
    IF environments = {}
    THEN Raise("ValidationError")
    ELSE update_application(request_id, app_slug, save_as_draft, user_email,
                            is_admin(user_email), fault)

cancel_request(request_id, user_email, cancellation_reason, fault) ==
    IF cancellation_reason = ""
    THEN Raise("BadRequest")
    ELSE cancel_application(request_id, user_email, is_admin(user_email),
                            cancellation_reason, fault)

expedite_request(request_id, user_email, expedite_reason, fault) ==
    IF expedite_reason = ""
    THEN Raise("BadRequest")
    ELSE expedite_application(request_id, user_email, is_admin(user_email),
                              expedite_reason, fault)

----------------------------------------------------------------------------
(* Handlers of app/api.py that write to the store themselves.  An early    *)
(* return is named by its status (BadRequest, Forbidden, NotFound); what   *)
(* the except clause turns into a 500 is "Exception".                      *)

\* rejection_reason as it arrives in the request body
ReasonInputs == {"absent", "null", "empty", "blank", "text"}

\* ApprovalRequest: the field validator runs only when the field is present
ApprovalRequestValid(approved, reason) ==
    ~(reason \in {"null", "empty"} /\ ~approved)

\* v.strip() if v else None
ApprovalReason(reason) ==
    CASE reason = "text" -> "text"
      [] reason = "blank" -> ""
      [] OTHER -> None

\* mutant of IsPending: an approved request can be processed again
IsPending_OrApproved(application) ==
    application.status \in {"PENDING", "APPROVED"}

\* "Check if already processed"
IsPending(application) == application.status = "PENDING"

\* mutant of ApprovalEvents: an approval records no APPROVED event
ApprovalEvents_NoApproved(approved) ==
    IF approved
    THEN <<RequestTimeline("PENDING_APPROVAL", "COMPLETED"),
           RequestTimeline("SUBSCRIPTION_ASSIGNMENT", "IN_PROGRESS")>>
    ELSE <<RequestTimeline("PENDING_APPROVAL", "FAILED"),
           RequestTimeline("REJECTED", "FAILED")>>

\* the timeline events of an approval or a rejection
ApprovalEvents(approved) ==
    IF approved
    THEN <<RequestTimeline("PENDING_APPROVAL", "COMPLETED"),
           RequestTimeline("APPROVED", "COMPLETED"),
           RequestTimeline("SUBSCRIPTION_ASSIGNMENT", "IN_PROGRESS")>>
    ELSE <<RequestTimeline("PENDING_APPROVAL", "FAILED"),
           RequestTimeline("REJECTED", "FAILED")>>

\* approve_request from "Update application status" on: the assignments to
\* the row, app_repo.commit(), the timeline events and their commit.  The
\* UPDATE of the commit sets the assigned columns of the row as it is stored.
approve_write(request_id, user_email, approved, reason, fault) ==
    LET app == IF approved
               THEN [apps[request_id] EXCEPT
                        !.status = "APPROVED",
                        !.approved_by = user_email,
                        !.current_stage = "SUBSCRIPTION_ASSIGNMENT"]
               ELSE [apps[request_id] EXCEPT
                        !.status = "REJECTED",
                        !.approved_by = user_email,
                        !.rejection_reason = ApprovalReason(reason),
                        !.current_stage = "REJECTED"]
    IN  \* app_repo.commit(), then one timeline_repo.commit() for all events
        IF fault = 0 THEN RaiseFault
        ELSE IF fault = 1
        THEN Outcome("Exception", [apps EXCEPT ![request_id] = app],
                     envs, audits, timeline, TRUE)
        ELSE Outcome(None, [apps EXCEPT ![request_id] = app], envs, audits,
                     [timeline EXCEPT ![request_id] =
                         @ \o ApprovalEvents(approved)],
                     FALSE)

approve_request(request_id, user_email, approved, reason, fault) ==
    IF ~is_admin(user_email) THEN Raise("Forbidden")
    ELSE IF ~ApprovalRequestValid(approved, reason) THEN Raise("BadRequest")
    ELSE IF ~Exists(request_id) THEN Raise("NotFound")
    ELSE IF ~IsPending(apps[request_id]) THEN Raise("BadRequest")
    ELSE approve_write(request_id, user_email, approved, reason, fault)

\* environment rows are identified by (application id, environment name)
Assignment(env_id, subscription_id) ==
    [env_id |-> env_id, subscription_id |-> subscription_id]

\* the env_id of an entry that has none
NoEnv == <<0, None>>

MaxAssignments == 2

\* entries naming an environment and a subscription, one entry without
\* env_id and one without subscription_id
AssignmentEntries ==
    {Assignment(e, s) : e \in AllIds \X EnvNames, s \in SubIds}
        \cup {Assignment(NoEnv, "sub-1"),
              Assignment(<<1, "DEVELOPMENT">>, None)}

AssignmentInputs ==
    UNION {[1..n -> AssignmentEntries] : n \in 0..MaxAssignments}

RECURSIVE ApplyAssignments(_, _, _, _)
\* the loop over the assignments of the request body
ApplyAssignments(request_id, user_email, assignments, es) ==
    IF assignments = <<>> THEN es
    ELSE
    LET a == Head(assignments)
        found == /\ a.env_id # NoEnv /\ a.subscription_id # None
                 /\ a.env_id[1] = request_id
                 /\ a.env_id[2] \in DOMAIN es
        es2 == IF found
               THEN [es EXCEPT ![a.env_id[2]] =
                        [is_assigned |-> TRUE,
                         subscription_id |-> a.subscription_id,
                         assigned_by |-> user_email]]
               ELSE es
    IN  ApplyAssignments(request_id, user_email, Tail(assignments), es2)

\* mutant of all_assigned: any() instead of all()
all_assigned_Any(all_envs) == \E n \in DOMAIN all_envs : all_envs[n].is_assigned

\* all([env.is_assigned for env in all_envs])
all_assigned(all_envs) == \A n \in DOMAIN all_envs : all_envs[n].is_assigned

assign_subscriptions(request_id, user_email, assignments, fault) ==
    IF ~is_admin(user_email) THEN Raise("Forbidden")
    ELSE IF ~Exists(request_id) THEN Raise("Exception")
    ELSE IF apps[request_id].status # "APPROVED" THEN Raise("BadRequest")
    ELSE IF assignments = <<>> THEN Raise("BadRequest")
    ELSE
    LET all_envs == ApplyAssignments(request_id, user_email, assignments,
                                     envs[request_id])
        advance == all_assigned(all_envs)
                   /\ apps[request_id].current_stage = "SUBSCRIPTION_ASSIGNMENT"
        app == IF advance
               THEN [apps[request_id] EXCEPT
                        !.current_stage = "FOUNDATION_INFRA",
                        !.status = "FOUNDATION_INFRA_PROVISIONING"]
               ELSE apps[request_id]
        timeline_events ==
            IF advance
            THEN <<RequestTimeline(apps[request_id].current_stage,
                                   "COMPLETED"),
                   RequestTimeline("FOUNDATION_INFRA", "IN_PROGRESS")>>
            ELSE <<>>
    IN  CommitOnce(request_id, app, all_envs, timeline_events, fault)

Actions == {"foundation-complete", "infrastructure-complete",
            "handover-complete", "unknown", None}

\* mutant of RequiredStage: infrastructure-complete checks the wrong stage
RequiredStage_Wrong(action) ==
    CASE action = "foundation-complete" -> "FOUNDATION_INFRA"
      [] action = "infrastructure-complete" -> "FOUNDATION_INFRA"
      [] action = "handover-complete" -> "HANDOVER"
      [] OTHER -> None

\* the stage each action of advance-stage requires
RequiredStage(action) ==
    CASE action = "foundation-complete" -> "FOUNDATION_INFRA"
      [] action = "infrastructure-complete" -> "INFRASTRUCTURE"
      [] action = "handover-complete" -> "HANDOVER"
      [] OTHER -> None

advance_stage(request_id, user_email, action, fault) ==
    IF ~is_admin(user_email) THEN Raise("Forbidden")
    ELSE IF ~Exists(request_id) THEN Raise("Exception")
    ELSE
    LET application == apps[request_id]
        previous_stage == application.current_stage
        completed == RequestTimeline(previous_stage, "COMPLETED")
    IN  IF RequiredStage(action) = None THEN Raise("BadRequest")
        ELSE IF application.current_stage # RequiredStage(action)
        THEN Raise("BadRequest")
        ELSE IF action = "foundation-complete"
        THEN CommitOnce(request_id,
                        [application EXCEPT
                            !.status = "INFRASTRUCTURE_PROVISIONING",
                            !.current_stage = "INFRASTRUCTURE"],
                        envs[request_id],
                        <<completed,
                          RequestTimeline("INFRASTRUCTURE", "IN_PROGRESS")>>,
                        fault)
        ELSE IF action = "infrastructure-complete"
        THEN CommitOnce(request_id,
                        [application EXCEPT
                            !.status = "INFRASTRUCTURE_COMPLETED",
                            !.current_stage = "HANDOVER"],
                        envs[request_id],
                        <<completed,
                          RequestTimeline("HANDOVER", "IN_PROGRESS")>>,
                        fault)
        ELSE CommitOnce(request_id,
                        [application EXCEPT
                            !.status = "COMPLETED",
                            !.current_stage = "HANDOVER"],
                        envs[request_id],
                        <<completed>>,
                        fault)

fail_stage(request_id, user_email, fault) ==
    IF ~is_admin(user_email) THEN Raise("Forbidden")
    ELSE IF ~Exists(request_id) THEN Raise("Exception")
    ELSE CommitOnce(request_id,
                    [apps[request_id] EXCEPT !.status = "FAILED"],
                    envs[request_id],
                    <<RequestTimeline(apps[request_id].current_stage,
                                      "FAILED")>>,
                    fault)

----------------------------------------------------------------------------
(* FirewallRequestService.  A validated payload names its source           *)
(* application, its environment scopes and, per collection type, a rule    *)
(* group: rule_groups is a function on the types that have one.  A stored  *)
(* firewall request holds its rule collections and their rule entries.     *)

\* the order in which _iter_groups yields the groups
CollectionTypes == <<"APPLICATION", "NETWORK", "NAT">>

\* priority: Optional[int] = None of a rule group, and the None of
\* get_max_priority_for_source
NoPriority == 0

PRIORITY_INCREMENT == 100

PriorityCap == 65000

\* mutant of PRIORITY_BASELINE: the NETWORK baseline is that of APPLICATION
PRIORITY_BASELINE_Same(collection_type) ==
    CASE collection_type = "APPLICATION" -> 400
      [] collection_type = "NETWORK" -> 400
      [] collection_type = "NAT" -> 100
      [] OTHER -> 100

PRIORITY_BASELINE(collection_type) ==
    CASE collection_type = "APPLICATION" -> 400
      [] collection_type = "NETWORK" -> 6500
      [] collection_type = "NAT" -> 100
      [] OTHER -> 100

FirewallRuleEntry(name, source_ip_addresses, duplicate_key) ==
    [name |-> name, source_ip_addresses |-> source_ip_addresses,
     duplicate_key |-> duplicate_key]

FirewallRuleCollection(collection_type, action, priority, rule_entries) ==
    [collection_type |-> collection_type, action |-> action,
     priority |-> priority, rule_entries |-> rule_entries]

_collection_key(collection_type) ==
    CASE collection_type = "APPLICATION" -> "application_rules"
      [] collection_type = "NETWORK" -> "network_rules"
      [] collection_type = "NAT" -> "nat_rules"

\* the fields of a rule entry that the document shows
_format_rule_for_document(collection_type, entry) ==
    [name |-> entry.name, source_ip_addresses |-> entry.source_ip_addresses]

\* the "rules" section of the document, a dict in insertion order: one key
\* per collection, in the order in which rule_collections is iterated
_build_collection_document(rule_collections) ==
    [k \in DOMAIN rule_collections |->
        LET collection == rule_collections[k]
        IN  [key |-> _collection_key(collection.collection_type),
             priority |-> collection.priority,
             action |-> collection.action,
             rules |-> [j \in DOMAIN collection.rule_entries |->
                          _format_rule_for_document(
                              collection.collection_type,
                              collection.rule_entries[j])]]]

\* rule_collections holds the collections in the order they were appended;
\* collection_document is built from them before the commit
FirewallRequest(app_id, source_application_id, rule_collections) ==
    [app_id |-> app_id, source_application_id |-> source_application_id,
     rule_collections |-> rule_collections,
     collection_document |-> _build_collection_document(rule_collections)]

\* FirewallRequest.rule_collections as loaded from the store,
\* order_by="FirewallRuleCollection.priority": every order of the
\* collections in which the priorities do not decrease
LoadedCollections(request) ==
    LET n == Len(request.rule_collections)
        orders == {f \in [1..n -> 1..n] :
                     /\ \A i, j \in 1..n : i # j => f[i] # f[j]
                     /\ \A i, j \in 1..n :
                          i < j => request.rule_collections[f[i]].priority
                                     <= request.rule_collections[f[j]].priority}
    IN  {[k \in 1..n |-> request.rule_collections[f[k]]] : f \in orders}

\* str.lower() on the rule names
Lower(name) ==
    CASE name = "Web" -> "web"
      [] name = "Db" -> "db"
      [] OTHER -> name

\* the order of str on the addresses
AddrRank(address) ==
    CASE address = "10.0.0.1" -> 1
      [] address = "10.0.0.2" -> 2
      [] address = "10.0.1.1" -> 3
      [] address = "api.example.com" -> 4
      [] OTHER -> 5

\* mutant of sorted: the list is taken in the order of the request
sorted_Asis(values) == values

sorted(values) == SortSeq(values, LAMBDA a, b : AddrRank(a) < AddrRank(b))

\* the destination components of the key: of an APPLICATION rule the sorted
\* concatenation of its FQDNs and addresses, of a NETWORK rule its sorted
\* addresses and its sorted FQDNs, of a NAT rule its one address
DestinationComponents(collection_type, rule) ==
    CASE collection_type = "APPLICATION" ->
            <<sorted(rule.destination_fqdns \o rule.destination_addresses)>>
      [] collection_type = "NETWORK" ->
            <<sorted(rule.destination_ip_addresses),
              sorted(rule.destination_fqdns)>>
      [] OTHER -> <<Lower(rule.destination_address)>>

\* the components that are hashed; the digest is taken to be injective.  The
\* rules of the model have the same protocols, IP groups, ports and
\* translated address, whose components are left out.
_build_duplicate_key(collection_type, rule) ==
    <<collection_type, Lower(rule.name), sorted(rule.source_ip_addresses)>>
        \o DestinationComponents(collection_type, rule)

_iter_groups(payload) ==
    SelectSeq(CollectionTypes, LAMBDA t : t \in DOMAIN payload.rule_groups)

\* the keys of all rules of a payload
PayloadKeys(payload) ==
    {_build_duplicate_key(t, payload.rule_groups[t].rules[j]) :
        <<t, j>> \in {x \in (DOMAIN payload.rule_groups) \X (1..MaxRules) :
                        x[2] <= Len(payload.rule_groups[x[1]].rules)}}

\* the stored rule entries, each named by request, collection and position
StoredEntries ==
    {x \in (1..Len(fw)) \X (1..Len(CollectionTypes)) \X (1..MaxRules) :
        /\ x[2] <= Len(fw[x[1]].rule_collections)
        /\ x[3] <= Len(fw[x[1]].rule_collections[x[2]].rule_entries)}

EntryAt(x) == fw[x[1]].rule_collections[x[2]].rule_entries[x[3]]

\* mutant of ActiveStatus: a cancelled tracking application still counts
ActiveStatus_Cancelled(status) == status \notin {"REJECTED", "FAILED"}

\* ~Application.status.in_([REJECTED, CANCELLED, FAILED])
ActiveStatus(status) == status \notin {"REJECTED", "CANCELLED", "FAILED"}

find_duplicates(duplicate_keys) ==
    {x \in StoredEntries :
        /\ EntryAt(x).duplicate_key \in duplicate_keys
        /\ ActiveStatus(apps[fw[x[1]].app_id].status)}

\* the body of the DuplicateFirewallRuleError
duplicate_payload(duplicates) ==
    {[rule |-> EntryAt(x),
      existing_request |-> x[1],
      application |-> [id |-> fw[x[1]].app_id,
                       app_code |-> apps[fw[x[1]].app_id].app_code,
                       status |-> apps[fw[x[1]].app_id].status]] :
        x \in duplicates}

get_max_priority_for_source(source_application_id, collection_type) ==
    LET P == {fw[f].rule_collections[c].priority :
                <<f, c>> \in {x \in (1..Len(fw)) \X (1..Len(CollectionTypes)) :
                    /\ x[2] <= Len(fw[x[1]].rule_collections)
                    /\ fw[x[1]].source_application_id = source_application_id
                    /\ fw[x[1]].rule_collections[x[2]].collection_type
                          = collection_type}}
    IN  IF P = {} THEN NoPriority ELSE Max(P)

_determine_priority(source_application_id, collection_type, requested_priority) ==
    IF requested_priority # NoPriority THEN requested_priority
    ELSE LET existing_priority ==
                get_max_priority_for_source(source_application_id,
                                            collection_type)
         IN  IF existing_priority = NoPriority
             THEN PRIORITY_BASELINE(collection_type)
             ELSE LET next_priority == existing_priority + PRIORITY_INCREMENT
                  IN  IF next_priority < PriorityCap THEN next_priority
                      ELSE PriorityCap

\* mutant of env_code_to_name: the codes are not mapped
env_code_to_name_Asis(scope) == scope

env_code_to_name(scope) ==
    CASE scope = "DEV" -> "DEVELOPMENT"
      [] scope = "TEST" -> "TESTING"
      [] scope = "STAGE" -> "STAGING"
      [] scope = "PROD" -> "PRODUCTION"
      [] OTHER -> scope

\* str.upper() on the environment names
Upper(name) ==
    CASE name = "Development" -> "DEVELOPMENT"
      [] name = "dev" -> "DEV"
      [] OTHER -> name

\* a source_application_id of null in the request body
NoSource == 0

\* mutant of _validate_priority: only the range is checked
_validate_priority_RangeOnly(value) ==
    \/ value = NoPriority
    \/ 100 <= value /\ value <= PriorityCap

\* _validate_priority: None, or within 100..65000 in increments of 100
_validate_priority(value) ==
    \/ value = NoPriority
    \/ /\ 100 <= value /\ value <= PriorityCap
       /\ value % 100 = 0

\* FirewallRequestCreate: source_application_id: int = Field(..., gt=0), at
\* least one environment scope, and the priority validator of each group
FirewallRequestCreateValid(payload) ==
    /\ payload.source_application_id # NoSource
    /\ payload.source_application_id > 0
    /\ payload.environment_scopes # {}
    /\ \A t \in DOMAIN payload.rule_groups :
            _validate_priority(payload.rule_groups[t].priority)

\* what the handler and create_firewall_request do before the first write:
\* the validation of the body, then the reads of the duplicates, the source
\* application and its environments
firewall_check(payload) ==
    LET src == payload.source_application_id
    IN  IF ~FirewallRequestCreateValid(payload) THEN "ValidationError"
        ELSE IF find_duplicates(PayloadKeys(payload)) # {}
        THEN "DuplicateFirewallRuleError"
        ELSE IF ~Exists(src) THEN "ValueError"
        ELSE IF apps[src].request_type # "ONBOARDING" THEN "ValueError"
        ELSE IF {env_code_to_name(c) : c \in payload.environment_scopes}
                    \ {Upper(n) : n \in DOMAIN envs[src]} # {}
        THEN "ValueError"
        ELSE None

\* the rule collections built from the groups of a payload
BuildCollections(payload) ==
    LET groups == _iter_groups(payload)
    IN  [k \in 1..Len(groups) |->
            LET t == groups[k]
                group == payload.rule_groups[t]
            IN  FirewallRuleCollection(
                    t,
                    group.action,
                    _determine_priority(payload.source_application_id, t,
                                        group.priority),
                    [j \in 1..Len(group.rules) |->
                        FirewallRuleEntry(
                            group.rules[j].name,
                            group.rules[j].source_ip_addresses,
                            _build_duplicate_key(t, group.rules[j]))])]

\* mutant of firewall_rows: no audit entry and no timeline event of its own
firewall_rows_Silent(r, id, payload, requested_by) ==
    [r EXCEPT
        !.fw = Append(fw, FirewallRequest(id, payload.source_application_id,
                                          BuildCollections(payload)))]

\* the last commit of create_firewall_request, on top of the store of r: the
\* firewall request of tracking application id, its collections and entries,
\* one more audit entry and one more timeline event
firewall_rows(r, id, payload, requested_by) ==
    [r EXCEPT
        !.fw = Append(fw, FirewallRequest(id, payload.source_application_id,
                                          BuildCollections(payload))),
        !.audits[id] = Append(@, RequestAudit("CREATE", requested_by)),
        !.timeline[id] =
            Append(@, RequestTimeline("PENDING_APPROVAL", "IN_PROGRESS"))]

\* the writes of create_firewall_request: create_application commits the
\* tracking application, its audit entry and its two timeline events, then
\* the firewall request, its collections and entries, one more audit entry
\* and one more timeline event are committed together
firewall_commit(payload, app_code, requested_by, fault) ==
    LET id == Len(apps) + 1
        r == create_commit("FIREWALL", app_code, None, {}, FALSE,
                           requested_by, fault)
        total == 1 + 1 + Len(CreationEvents(FALSE)) + 1
    IN  IF r.err # None THEN r
        ELSE IF fault < total
        THEN [r EXCEPT !.err = "Exception", !.faulted = TRUE]
        ELSE firewall_rows(r, id, payload, requested_by)

create_firewall_request(payload, requested_by, fault) ==
    LET err == firewall_check(payload)
    IN  IF err = "DuplicateFirewallRuleError"
        THEN [duplicates |->
                 duplicate_payload(find_duplicates(PayloadKeys(payload)))]
             @@ Raise(err)
        ELSE IF err # None THEN Raise(err)
        ELSE firewall_commit(payload, _generate_app_code("FIREWALL"),
                             requested_by, fault)

----------------------------------------------------------------------------
(* Actions: one request to the portal.  The outcome of the handler becomes *)
(* the next store and resp the HTTP response.                              *)

Faults == 0..3 \cup {NoFault}

\* the number of fail_stage calls recorded in a timeline (a rejection
\* records two FAILED events of its own)
FailCalls(app, events) ==
    Cardinality({k \in 1..Len(events) : events[k].status = "FAILED"})
        - (IF app.current_stage = "REJECTED" THEN 2 ELSE 0)

WithinCaps(r) ==
    /\ Len(r.apps) <= MaxApps
    /\ \A j \in 1..Len(r.apps) :
        /\ Len(r.timeline[j]) <= MaxTimeline
        /\ Len(r.audits[j]) <= MaxAudit
        /\ Cardinality({k \in 1..Len(r.audits[j]) :
                           r.audits[j][k].request_type = "UPDATE"})
              <= MaxUpdates
        /\ FailCalls(r.apps[j], r.timeline[j]) <= MaxFailed

Respond(op, id, r, ok, fault) ==
    /\ WithinCaps(r)
    /\ fault # NoFault => r.faulted /\ faults < MaxFaults
    /\ apps' = r.apps
    /\ envs' = r.envs
    /\ audits' = r.audits
    /\ timeline' = r.timeline
    /\ faults' = IF r.faulted THEN faults + 1 ELSE faults
    /\ fw' = r.fw
    /\ UNCHANGED <<inflight, call>>
    /\ resp' = Response(op, id, HttpCode(r.err, ok))

Create(F, S) ==
    \E u \in Requesters, s \in S, es \in SUBSET EnvNames, d \in BOOLEAN,
       f \in F :
        Respond("create", Len(apps) + 1, create_request(u, s, es, d, f),
                201, f)

Submit(F) ==
    \E i \in AllIds, u \in Users, f \in F :
        Respond("submit", i, submit_request(i, u, f), 200, f)

Update(F, S) ==
    \E i \in AllIds, u \in Users, s \in S, es \in SUBSET EnvNames,
       d \in BOOLEAN, f \in F :
        Respond("update", i, update_request(i, u, s, es, d, f), 200, f)

Reasons == {"", "text"}

Cancel(F) ==
    \E i \in AllIds, u \in Users, c \in Reasons, f \in F :
        Respond("cancel", i, cancel_request(i, u, c, f), 200, f)

Expedite(F) ==
    \E i \in AllIds, u \in Users, c \in Reasons, f \in F :
        Respond("expedite", i, expedite_request(i, u, c, f), 200, f)

Approve(F) ==
    \E i \in AllIds, u \in Users, a \in BOOLEAN, c \in ReasonInputs, f \in F :
        Respond("approve", i, approve_request(i, u, a, c, f), 200, f)

Assign(F) ==
    \E i \in AllIds, u \in Users, as \in AssignmentInputs, f \in F :
        Respond("assign", i, assign_subscriptions(i, u, as, f), 200, f)

Advance(F) ==
    \E i \in AllIds, u \in Users, a \in Actions, f \in F :
        Respond("advance", i, advance_stage(i, u, a, f), 200, f)

Fail(F) ==
    \E i \in AllIds, u \in Users, f \in F :
        Respond("fail", i, fail_stage(i, u, f), 200, f)

----------------------------------------------------------------------------
(* Specifications *)

\* the portal on a store that never fails
Next ==
    \/ Create({NoFault}, Slugs)
    \/ Submit({NoFault})
    \/ Update({NoFault}, Slugs)
    \/ Cancel({NoFault})
    \/ Expedite({NoFault})
    \/ Approve({NoFault})
    \/ Assign({NoFault})
    \/ Advance({NoFault})
    \/ Fail({NoFault})

Spec == Init /\ [][Next]_vars

\* the handlers that commit once per write, on a store that may fail
NextFault ==
    \/ Create(Faults, Slugs)
    \/ Submit(Faults)
    \/ Update(Faults, Slugs)
    \/ Cancel(Faults)
    \/ Expedite(Faults)

SpecFault == Init /\ [][NextFault]_vars

----------------------------------------------------------------------------
(* Firewall requests and concurrent creations.  Step is a whole handler on *)
(* a store that does not fail; Begin... and Finish... are the two halves   *)
(* of a handler that runs concurrently with another one: its reads up to   *)
(* the generated app_code, then its writes.                                *)

\* a validated rule: the name, the source addresses and the destination
\* fields of ApplicationRuleInput (destination_fqdns, destination_addresses),
\* NetworkRuleInput (destination_ip_addresses, destination_fqdns) and
\* NatRuleInput (destination_address)
RuleInput(name, source_ip_addresses, fqdns, addresses, ip_addresses, address) ==
    [name |-> name, source_ip_addresses |-> source_ip_addresses,
     destination_fqdns |-> fqdns, destination_addresses |-> addresses,
     destination_ip_addresses |-> ip_addresses,
     destination_address |-> address]

\* a rule to the FQDN api.example.com (APPLICATION) or the address 10.0.1.1
Rule(name, source_ip_addresses) ==
    RuleInput(name, source_ip_addresses, <<"api.example.com">>, <<>>,
              <<"10.0.1.1">>, "10.0.1.1")

\* Web and web have the same duplicate key
WebRule == Rule("Web", <<"10.0.0.2", "10.0.0.1">>)

webRule == Rule("web", <<"10.0.0.1", "10.0.0.2">>)

DbRule == Rule("Db", <<"10.0.0.1">>)

\* every group of the payloads has action "Allow"
RuleGroup(priority, rules) ==
    [action |-> "Allow", priority |-> priority, rules |-> rules]

Payload(source_application_id, environment_scopes, rule_groups) ==
    [source_application_id |-> source_application_id,
     environment_scopes |-> environment_scopes,
     rule_groups |-> rule_groups]

\* payloads with one NETWORK group and no explicit priority
DuplicatePayloads ==
    {Payload(src, scopes, [t \in {"NETWORK"} |-> RuleGroup(NoPriority, rules)]) :
        src \in {1},
        scopes \in {{"DEV"}, {"TEST"}},
        rules \in {<<WebRule>>, <<webRule>>, <<DbRule>>, <<WebRule, webRule>>}}

\* explicit priorities the schema refuses: off the increments, above the cap
InvalidPriorities == {150, 65100}

\* payloads with and without explicit priorities, for one or two types
PriorityPayloads ==
    {Payload(src, {"DEV"}, [t \in T |-> RuleGroup(priority, <<rule>>)]) :
        src \in {1, 2},
        T \in {{"NETWORK"}, {"APPLICATION", "NAT"}},
        priority \in {NoPriority, 200, PriorityCap} \cup InvalidPriorities,
        rule \in {WebRule, DbRule}}

\* payloads of two submissions of the same rule
RacePayloads ==
    {Payload(1, {"DEV"}, [t \in {"NETWORK"} |-> RuleGroup(NoPriority, <<rule>>)]) :
        rule \in {WebRule, webRule, DbRule}}

FwCaps(r) ==
    /\ Len(r.apps) <= MaxFwApps
    /\ Len(r.fw) <= MaxFw
    /\ \A j \in 1..Len(r.apps) :
        /\ Len(r.timeline[j]) <= MaxTimeline
        /\ Len(r.audits[j]) <= MaxAudit
        /\ Cardinality({k \in 1..Len(r.audits[j]) :
                           r.audits[j][k].request_type = "UPDATE"})
              <= MaxUpdates
        /\ FailCalls(r.apps[j], r.timeline[j]) <= MaxFailed

Persist(op, id, r, ok) ==
    /\ FwCaps(r)
    /\ apps' = r.apps
    /\ envs' = r.envs
    /\ audits' = r.audits
    /\ timeline' = r.timeline
    /\ fw' = r.fw
    /\ resp' = Response(op, id, HttpCode(r.err, ok))
    /\ UNCHANGED <<faults, call>>

Step(op, id, r, ok) == Persist(op, id, r, ok) /\ UNCHANGED inflight

\* POST /requests for the onboarding applications the firewall requests name
CreateSource(S) ==
    \E u \in Requesters, s \in S :
        Step("create", Len(apps) + 1,
             create_request(u, s, EnvNames, FALSE, NoFault), 201)

CreateFirewall(P) ==
    \E u \in Requesters, payload \in P :
        Step("firewall", Len(apps) + 1,
             create_firewall_request(payload, u, NoFault), 201)

\* the tracking applications of the firewall requests
Tracking == {i \in AppIds : apps[i].request_type = "FIREWALL"}

TrackingApprove ==
    \E i \in Tracking, u \in admin_emails, a \in BOOLEAN :
        Step("approve", i, approve_request(i, u, a, "text", NoFault), 200)

TrackingCancel ==
    \E i \in Tracking, u \in admin_emails :
        Step("cancel", i, cancel_request(i, u, "text", NoFault), 200)

TrackingAssign ==
    \E i \in Tracking, u \in admin_emails :
        Step("assign", i,
             assign_subscriptions(i, u, <<Assignment(NoEnv, "sub-1")>>,
                                  NoFault), 200)

TrackingAdvance ==
    \E i \in Tracking, u \in admin_emails,
       a \in {"foundation-complete", "handover-complete"} :
        Step("advance", i, advance_stage(i, u, a, NoFault), 200)

TrackingFail ==
    \E i \in Tracking, u \in admin_emails :
        Step("fail", i, fail_stage(i, u, NoFault), 200)

\* firewall requests against one onboarding application, and the lifecycle
\* of their tracking applications
NextFirewall ==
    \/ CreateSource({"acme1"})
    \/ CreateFirewall(DuplicatePayloads)
    \/ TrackingApprove
    \/ TrackingCancel
    \/ TrackingAssign
    \/ TrackingAdvance
    \/ TrackingFail

SpecFirewall == Init /\ [][NextFirewall]_vars

\* firewall requests against two onboarding applications
NextPriority ==
    \/ CreateSource({"acme1", "beta2"})
    \/ CreateFirewall(PriorityPayloads)
    \/ TrackingCancel

SpecPriority == Init /\ [][NextPriority]_vars

\* the number of commits of create_firewall_request that succeed before the
\* storage layer raises: four of create_application, then its own
FirewallFaults == 0..4 \cup {NoFault}

\* POST /requests/firewall on a store that may fail
CreateFirewallFault(P) ==
    \E u \in Requesters, payload \in P, f \in FirewallFaults :
        LET r == create_firewall_request(payload, u, f)
        IN  /\ FwCaps(r)
            /\ f # NoFault => r.faulted /\ faults < MaxFaults
            /\ apps' = r.apps
            /\ envs' = r.envs
            /\ audits' = r.audits
            /\ timeline' = r.timeline
            /\ fw' = r.fw
            /\ faults' = IF r.faulted THEN faults + 1 ELSE faults
            /\ resp' = Response("firewall", Len(apps) + 1, HttpCode(r.err, 201))
            /\ UNCHANGED <<inflight, call>>

\* firewall requests on a store that may fail MaxFaults times
NextFirewallFault ==
    \/ CreateSource({"acme1"})
    \/ CreateFirewallFault(DuplicatePayloads)
    \/ TrackingCancel

SpecFirewallFault == Init /\ [][NextFirewallFault]_vars

\* the environments of the source applications: names in any case
ScopeEnvSets == {{"Development", "QA"}, {"dev"}, {"DEVELOPMENT", "PRODUCTION"}}

\* payloads naming one or two environment scopes of an application
ScopePayloads ==
    {Payload(src, scopes, [t \in {"NETWORK"} |-> RuleGroup(NoPriority, <<rule>>)]) :
        src \in {1, 2},
        scopes \in {{"DEV"}, {"QA"}, {"DEV", "PROD"}, {"DEV", "DR"}},
        rule \in {WebRule, DbRule}}

\* the payload of test_firewall_integration.py: no source application, the
\* scopes DEV and TEST, one application, one network and one NAT rule group
IntegrationPayload ==
    Payload(NoSource, {"DEV", "TEST"},
            [t \in {"APPLICATION", "NETWORK", "NAT"} |->
                [action |-> IF t = "NAT" THEN "Dnat" ELSE "Allow",
                 priority |-> NoPriority,
                 rules |-> <<IF t = "NETWORK" THEN DbRule ELSE WebRule>>]])

\* POST /requests of an onboarding application with environments of E
CreateSourceEnvs(S, E) ==
    \E u \in Requesters, s \in S, es \in E :
        Step("create", Len(apps) + 1,
             create_request(u, s, es, FALSE, NoFault), 201)

\* firewall requests against source applications with differently named
\* environments
NextScopes ==
    \/ CreateSourceEnvs({"acme1", "beta2"}, ScopeEnvSets)
    \/ CreateFirewall(ScopePayloads \cup {IntegrationPayload})

SpecScopes == Init /\ [][NextScopes]_vars

\* a request in progress: what it has read, generated and written so far
InFlight(kind, app_code, app_id, app_slug, save_as_draft, requested_by, payload) ==
    [kind |-> kind, app_code |-> app_code, app_id |-> app_id,
     app_slug |-> app_slug, save_as_draft |-> save_as_draft,
     requested_by |-> requested_by, payload |-> payload]

\* the requests in progress that have not yet written their application row
Unwritten ==
    Cardinality({q \in Procs :
                    inflight[q].kind \in {"create", "checked", "coded"}})

\* create_request up to the generated app_code
BeginCreate(p, S) ==
    /\ inflight[p] = Idle
    /\ Len(apps) + Unwritten < MaxRaceApps
    /\ \E u \in Requesters, s \in S, d \in {TRUE} :
        IF SlugTaken("ONBOARDING", s)
        THEN Step("create", Len(apps) + 1, Raise("ValueError"), 201)
        ELSE /\ inflight' =
                    [inflight EXCEPT ![p] =
                        InFlight("create", _generate_app_code("ONBOARDING"),
                                 0, s, d, u, None)]
             /\ UNCHANGED <<apps, envs, audits, timeline, resp, faults, fw, call>>

\* create_request from the commit of the application row on
FinishCreate(p) ==
    /\ inflight[p].kind = "create"
    /\ Persist("create", Len(apps) + 1,
               create_commit("ONBOARDING", inflight[p].app_code,
                             inflight[p].app_slug, EnvNames,
                             inflight[p].save_as_draft,
                             inflight[p].requested_by, NoFault),
               201)
    /\ inflight' = [inflight EXCEPT ![p] = Idle]

\* create_firewall_request up to the call of create_application: the
\* duplicate check, the source application and the environment scopes
BeginFirewall(p, P) ==
    /\ inflight[p] = Idle
    /\ Len(apps) + Unwritten < MaxRaceApps
    /\ \E u \in Requesters, payload \in P :
        IF firewall_check(payload) # None
        THEN Step("firewall", Len(apps) + 1,
                  create_firewall_request(payload, u, NoFault), 201)
        ELSE /\ inflight' =
                    [inflight EXCEPT ![p] =
                        InFlight("checked", None, 0, None, FALSE, u, payload)]
             /\ UNCHANGED <<apps, envs, audits, timeline, resp, faults, fw, call>>

\* create_application of the tracking application up to the generated app_code
CodeFirewall(p) ==
    /\ inflight[p].kind = "checked"
    /\ inflight' =
          [inflight EXCEPT ![p].kind = "coded",
                           ![p].app_code = _generate_app_code("FIREWALL")]
    /\ UNCHANGED <<apps, envs, audits, timeline, resp, faults, fw, call>>

\* the commits of create_application for the tracking application; a failed
\* commit ends the request with 500
TrackFirewall(p) ==
    /\ inflight[p].kind = "coded"
    /\ LET id == Len(apps) + 1
           r == create_commit("FIREWALL", inflight[p].app_code, None, {},
                              FALSE, inflight[p].requested_by, NoFault)
       IN  IF r.err # None
           THEN /\ Persist("firewall", id, r, 201)
                /\ inflight' = [inflight EXCEPT ![p] = Idle]
           ELSE /\ FwCaps(r)
                /\ apps' = r.apps
                /\ envs' = r.envs
                /\ audits' = r.audits
                /\ timeline' = r.timeline
                /\ inflight' = [inflight EXCEPT ![p].kind = "tracked",
                                                ![p].app_id = id]
                /\ UNCHANGED <<resp, faults, fw, call>>

\* create_firewall_request after create_application: the firewall request
\* and its rules, committed together
FinishFirewall(p) ==
    /\ inflight[p].kind = "tracked"
    /\ Persist("firewall", inflight[p].app_id,
               firewall_rows(Raise(None), inflight[p].app_id,
                             inflight[p].payload, inflight[p].requested_by),
               201)
    /\ inflight' = [inflight EXCEPT ![p] = Idle]

\* PATCH /requests/<id> with a slug of S
UpdateSlug(S) ==
    \E i \in AppIds, u \in Requesters, s \in S, d \in {TRUE} :
        Step("update", i, update_request(i, u, s, EnvNames, d, NoFault), 200)

\* creations of onboarding and firewall requests that run concurrently
NextRace ==
    \E p \in Procs :
        \/ BeginCreate(p, {"acme1", "beta2"})
        \/ FinishCreate(p)
        \/ BeginFirewall(p, RacePayloads)
        \/ CodeFirewall(p)
        \/ TrackFirewall(p)
        \/ FinishFirewall(p)
        \/ UpdateSlug({"acme1", "beta2"})

SpecRace == Init /\ [][NextRace]_vars

\* rules that differ in the case of the name, the order of the source
\* addresses and the field that names a destination
KeyRules ==
    {RuleInput(name, sources, fqdns, addresses, ip_addresses, address) :
        name \in {"Web", "web"},
        sources \in {<<"10.0.0.1", "10.0.0.2">>, <<"10.0.0.2", "10.0.0.1">>},
        fqdns \in {<<>>, <<"api.example.com">>},
        addresses \in {<<>>, <<"api.example.com">>},
        ip_addresses \in {<<"10.0.1.1">>, <<"api.example.com">>},
        address \in {"10.0.1.1", "api.example.com"}}

\* no key computed yet
NoKeys == <<>>

InitKeys ==
    /\ apps = <<>>
    /\ envs = <<>>
    /\ audits = <<>>
    /\ timeline = <<>>
    /\ resp = Response("init", 0, 0)
    /\ faults = 0
    /\ fw = <<>>
    /\ inflight = [p \in Procs |-> Idle]
    /\ \E t \in {"APPLICATION", "NETWORK", "NAT"}, a \in KeyRules, b \in KeyRules :
        call = [fn |-> "_build_duplicate_key", collection_type |-> t,
                a |-> a, b |-> b, keys |-> NoKeys]

\* the keys of two rules of one collection type
BuildKeys ==
    /\ call.fn = "_build_duplicate_key"
    /\ call.keys = NoKeys
    /\ call' = [call EXCEPT !.keys =
                    <<_build_duplicate_key(call.collection_type, call.a),
                      _build_duplicate_key(call.collection_type, call.b)>>]
    /\ UNCHANGED <<apps, envs, audits, timeline, resp, faults, fw, inflight>>

NextKeys == BuildKeys

SpecKeys == InitKeys /\ [][NextKeys]_vars

\* a lifecycle request in progress: it has read the application row and
\* passed its checks, and has not yet written
Reading(kind, app_id, user_email, approved) ==
    [kind |-> kind, app_id |-> app_id, user_email |-> user_email,
     approved |-> approved]

\* approve_request up to "Check if already processed"
BeginApprove(p) ==
    /\ inflight[p] = Idle
    /\ \E i \in AppIds, u \in admin_emails, a \in BOOLEAN :
        LET r == approve_request(i, u, a, "text", NoFault)
        IN  IF r.err # None
            THEN Step("approve", i, r, 200)
            ELSE /\ inflight' =
                        [inflight EXCEPT ![p] = Reading("approve", i, u, a)]
                 /\ UNCHANGED <<apps, envs, audits, timeline, resp, faults, fw, call>>

\* approve_request from "Update application status" on
FinishApprove(p) ==
    /\ inflight[p].kind = "approve"
    /\ Persist("approve", inflight[p].app_id,
               approve_write(inflight[p].app_id, inflight[p].user_email,
                             inflight[p].approved, "text", NoFault),
               200)
    /\ inflight' = [inflight EXCEPT ![p] = Idle]

\* cancel_request up to "Check if status allows cancellation"
BeginCancel(p) ==
    /\ inflight[p] = Idle
    /\ \E i \in AppIds, u \in Users :
        LET r == cancel_request(i, u, "text", NoFault)
        IN  IF r.err # None
            THEN Step("cancel", i, r, 200)
            ELSE /\ inflight' =
                        [inflight EXCEPT ![p] = Reading("cancel", i, u, FALSE)]
                 /\ UNCHANGED <<apps, envs, audits, timeline, resp, faults, fw, call>>

\* cancel_request from "Update application" on
FinishCancel(p) ==
    /\ inflight[p].kind = "cancel"
    /\ Persist("cancel", inflight[p].app_id,
               cancel_write(inflight[p].app_id, inflight[p].user_email,
                            "text", NoFault),
               200)
    /\ inflight' = [inflight EXCEPT ![p] = Idle]

\* approve/reject and cancel requests that run concurrently, each in its own
\* session against the shared store
NextLifecycleRace ==
    \E p \in Procs :
        \/ CreateSource({"acme1", "beta2"})
        \/ BeginApprove(p)
        \/ FinishApprove(p)
        \/ BeginCancel(p)
        \/ FinishCancel(p)

SpecLifecycleRace == Init /\ [][NextLifecycleRace]_vars

----------------------------------------------------------------------------
(* Validators of app/schemas.py.  A Python string is the sequence of its   *)
(* characters; the validator under evaluation, its argument and its result *)
(* are held in call.                                                       *)

Digits == <<"0", "1", "2", "3", "4", "5", "6", "7", "8", "9">>

\* the code point of a character
Ord(c) ==
    CASE c = " " -> 32
      [] c = "," -> 44
      [] c = "-" -> 45
      [] OTHER -> 48 + (CHOOSE d \in 0..9 : Digits[d + 1] = c)

\* a < b for str
RECURSIVE StrLess(_, _)
StrLess(a, b) ==
    IF b = <<>> THEN FALSE
    ELSE IF a = <<>> THEN TRUE
    ELSE IF Head(a) # Head(b) THEN Ord(Head(a)) < Ord(Head(b))
    ELSE StrLess(Tail(a), Tail(b))

\* the position of the first sep in s, 0 when there is none
Find(s, sep) ==
    IF \E k \in 1..Len(s) : s[k] = sep
    THEN CHOOSE k \in 1..Len(s) : s[k] = sep /\ \A j \in 1..(k - 1) : s[j] # sep
    ELSE 0

\* str.split(sep)
RECURSIVE Split(_, _)
Split(s, sep) ==
    LET k == Find(s, sep)
    IN  IF k = 0 THEN <<s>>
        ELSE <<SubSeq(s, 1, k - 1)>> \o Split(SubSeq(s, k + 1, Len(s)), sep)

\* str.strip()
RECURSIVE Strip(_)
Strip(s) ==
    IF s = <<>> THEN s
    ELSE IF Head(s) = " " THEN Strip(Tail(s))
    ELSE IF s[Len(s)] = " " THEN Strip(SubSeq(s, 1, Len(s) - 1))
    ELSE s

\* int(s) raises ValueError
NotInt(s) ==
    \/ Strip(s) = <<>>
    \/ \E k \in 1..Len(Strip(s)) : Strip(s)[k] \in {" ", ",", "-"}

\* int(s) of an unsigned decimal literal
RECURSIVE IntOfDigits(_)
IntOfDigits(s) ==
    IF s = <<>> THEN 0
    ELSE 10 * IntOfDigits(SubSeq(s, 1, Len(s) - 1)) + (Ord(s[Len(s)]) - 48)

int(s) == IntOfDigits(Strip(s))

\* str(n) for n >= 0
RECURSIVE str(_)
str(n) == IF n < 10 THEN <<Digits[n + 1]>> ELSE str(n \div 10) \o <<Digits[(n % 10) + 1]>>

MaxPort == 65535

\* what one token adds to the set: a "start-end" range, a single port, or
\* nothing for an empty token; err when the token raises ValueError
PortToken(token) ==
    LET candidate == Strip(token)
        k == Find(candidate, "-")
        start_str == SubSeq(candidate, 1, k - 1)
        end_str == SubSeq(candidate, k + 1, Len(candidate))
    IN  IF candidate = <<>> THEN [err |-> None, add |-> {}]
        ELSE IF k # 0
        THEN IF NotInt(start_str) \/ NotInt(end_str)
             THEN [err |-> "ValueError", add |-> {}]
             ELSE IF ~(/\ 1 <= int(start_str) /\ int(start_str) <= MaxPort
                       /\ 1 <= int(end_str) /\ int(end_str) <= MaxPort)
             THEN [err |-> "ValueError", add |-> {}]
             ELSE IF int(start_str) > int(end_str)
             THEN [err |-> "ValueError", add |-> {}]
             ELSE [err |-> None,
                   add |-> {str(int(start_str)) \o <<"-">> \o str(int(end_str))}]
        ELSE IF NotInt(candidate) THEN [err |-> "ValueError", add |-> {}]
        ELSE IF ~(1 <= int(candidate) /\ int(candidate) <= MaxPort)
        THEN [err |-> "ValueError", add |-> {}]
        ELSE [err |-> None, add |-> {str(int(candidate))}]

\* the tokens of all values, in order
RECURSIVE PortTokens(_)
PortTokens(values) ==
    IF values = <<>> THEN <<>>
    ELSE Split(Head(values), ",") \o PortTokens(Tail(values))

\* sorted() of a set of str
RECURSIVE SortedStrings(_)
SortedStrings(S) ==
    IF S = {} THEN <<>>
    ELSE LET least == CHOOSE x \in S : \A y \in S \ {x} : StrLess(x, y)
         IN  <<least>> \o SortedStrings(S \ {least})

_normalise_port_values(values) ==
    LET tokens == PortTokens(values)
        parsed == [k \in DOMAIN tokens |-> PortToken(tokens[k])]
        normalised == UNION {parsed[k].add : k \in DOMAIN parsed}
    IN  IF \E k \in DOMAIN parsed : parsed[k].err # None
        THEN [err |-> "ValueError", values |-> <<>>]
        ELSE IF normalised = {}
        THEN [err |-> "ValueError", values |-> <<>>]
        ELSE [err |-> None, values |-> SortedStrings(normalised)]

\* the strings given as destination_ports
PortStrings ==
    {<<"4", "4", "3">>, <<"8", "0", "-", "8", "0">>,
     <<"2", "2", ",", "2", "3">>, <<"8", "0">>, <<"0", "8", "0">>,
     <<" ", "2", "2", ",">>, <<"9", "0", "-", "8", "0">>, <<"0">>}

MaxPortValues == 3

PortInputs ==
    UNION {[1..n -> PortStrings] : n \in 0..MaxPortValues}

\* a validator called and not yet returned
Pending == [err |-> "pending", values |-> <<>>]

InitPorts ==
    /\ apps = <<>>
    /\ envs = <<>>
    /\ audits = <<>>
    /\ timeline = <<>>
    /\ resp = Response("init", 0, 0)
    /\ faults = 0
    /\ fw = <<>>
    /\ inflight = [p \in Procs |-> Idle]
    /\ \E values \in PortInputs :
        call = [fn |-> "_normalise_port_values", values |-> values,
                result |-> Pending]

\* NetworkRuleInput.validate_ports / NatRuleInput.validate_nat_ports
ValidatePorts ==
    /\ call.fn = "_normalise_port_values"
    /\ call.result = Pending
    /\ call' = [call EXCEPT !.result = _normalise_port_values(call.values)]
    /\ UNCHANGED <<apps, envs, audits, timeline, resp, faults, fw, inflight>>

NextPorts == ValidatePorts

SpecPorts == InitPorts /\ [][NextPorts]_vars

----------------------------------------------------------------------------
(* Properties *)

\* the outcome r leaves the store as it is
Same(r) ==
    /\ r.apps = apps
    /\ r.envs = envs
    /\ r.audits = audits
    /\ r.timeline = timeline
    /\ r.fw = fw

Authorized(i, u) == is_admin(u) \/ u = apps[i].requested_by

LenAt(seqs, i) == IF i \in 1..Len(seqs) THEN Len(seqs[i]) ELSE 0

ServiceOps == {"create", "submit", "update", "cancel", "expedite"}

\* C1: every create, submit, update, cancel and expedite is atomic, also when
\* a commit fails between two of its writes: either nothing of the request is
\* persisted, or the application row, its audit entry and all its timeline
\* events (two for a create that is not a draft, none for an update, one
\* otherwise) are.
C1_AtomicWrites ==
    [][resp'.op \in ServiceOps =>
        LET i == resp'.id
            mutated == /\ i \in 1..Len(apps')
                       /\ (i \notin AppIds \/ apps'[i] # apps[i])
            nAudit == LenAt(audits', i) - LenAt(audits, i)
            nEvent == LenAt(timeline', i) - LenAt(timeline, i)
            expected ==
                CASE resp'.op = "update" -> 0
                  [] /\ resp'.op = "create"
                     /\ i \in 1..Len(apps') /\ apps'[i].status # "DRAFT" -> 2
                  [] OTHER -> 1
        IN  \/ ~mutated /\ nAudit = 0 /\ nEvent = 0
            \/ nAudit = 1 /\ nEvent = expected]_vars

Terminal == {"REJECTED", "CANCELLED", "FAILED"}

\* the order DRAFT < PENDING < ... < COMPLETED (0: not in the order)
Rank(status) ==
    CASE status = "DRAFT" -> 1
      [] status = "PENDING" -> 2
      [] status = "APPROVED" -> 3
      [] status = "FOUNDATION_INFRA_PROVISIONING" -> 4
      [] status = "INFRASTRUCTURE_PROVISIONING" -> 5
      [] status = "INFRASTRUCTURE_COMPLETED" -> 6
      [] status = "COMPLETED" -> 7
      [] OTHER -> 0

\* C2: status never regresses: every status change moves to a strictly later
\* status of the order DRAFT < PENDING < APPROVED <
\* FOUNDATION_INFRA_PROVISIONING < INFRASTRUCTURE_PROVISIONING <
\* INFRASTRUCTURE_COMPLETED < COMPLETED, or into REJECTED, CANCELLED or FAILED
\* (so no application returns to DRAFT or PENDING).
C2_StatusNeverRegresses ==
    [][\A i \in AppIds :
        apps'[i].status # apps[i].status =>
            \/ apps'[i].status \in Terminal
            \/ /\ Rank(apps[i].status) > 0
               /\ Rank(apps'[i].status) > Rank(apps[i].status)]_vars

\* C3: FAILED is terminal: a successful fail appends one FAILED event for the
\* current stage, sets status FAILED and keeps the stage, and no operation
\* changes the status of a FAILED application.
C3_FailedIsTerminal ==
    [][\A i \in AppIds :
        /\ (resp'.op = "fail" /\ resp'.id = i /\ resp'.code = 200) =>
              /\ timeline'[i] =
                    Append(timeline[i],
                           RequestTimeline(apps[i].current_stage, "FAILED"))
              /\ apps'[i].status = "FAILED"
              /\ apps'[i].current_stage = apps[i].current_stage
        /\ apps[i].status = "FAILED" => apps'[i].status = "FAILED"]_vars

\* C4: COMPLETED is terminal: a successful advance-stage from stage HANDOVER
\* sets status COMPLETED and keeps stage HANDOVER, and no operation changes
\* the status or the stage of a COMPLETED application or appends a timeline
\* event to it.
C4_CompletedIsTerminal ==
    [][\A i \in AppIds :
        /\ (/\ resp'.op = "advance" /\ resp'.id = i /\ resp'.code = 200
            /\ apps[i].current_stage = "HANDOVER") =>
              /\ apps'[i].status = "COMPLETED"
              /\ apps'[i].current_stage = "HANDOVER"
        /\ apps[i].status = "COMPLETED" =>
              /\ apps'[i].status = "COMPLETED"
              /\ apps'[i].current_stage = apps[i].current_stage
              /\ timeline'[i] = timeline[i]]_vars

\* the cancellation metadata is written by a successful cancel only
Cancelled(i) == apps[i].cancelled_by # None

\* C5: once an application has been cancelled, every submit by its requester
\* or an admin and every approve/reject and assign-subscriptions by an admin
\* fails with a state error (400) and leaves the store unchanged.
C5_CancelledBlocksProgress ==
    /\ \A i \in AppIds :
        Cancelled(i) =>
            /\ \A u \in Users :
                Authorized(i, u) =>
                    LET r == submit_request(i, u, NoFault)
                    IN  HttpCode(r.err, 200) = 400 /\ Same(r)
            /\ \A u \in admin_emails, a \in BOOLEAN, c \in ReasonInputs :
                    LET r == approve_request(i, u, a, c, NoFault)
                    IN  HttpCode(r.err, 200) = 400 /\ Same(r)
            /\ \A u \in admin_emails, as \in AssignmentInputs :
                    LET r == assign_subscriptions(i, u, as, NoFault)
                    IN  HttpCode(r.err, 200) = 400 /\ Same(r)
    /\ (/\ resp.op \in {"submit", "approve", "assign"}
        /\ Exists(resp.id) /\ Cancelled(resp.id)) => resp.code \in {400, 403}

\* a submit answered with 400 on a cancelled application
C5_Witness ==
    /\ resp.op = "submit" /\ resp.code = 400
    /\ Exists(resp.id) /\ Cancelled(resp.id)

\* C6: approve/reject succeeds only on a PENDING application: an approval
\* then sets APPROVED / SUBSCRIPTION_ASSIGNMENT, a rejection REJECTED /
\* REJECTED; on any other status it fails and leaves the store (status,
\* stage, approver, rejection reason, timeline) unchanged.
C6_ApproveOnlyPending ==
    /\ \A i \in AppIds, u \in Users, a \in BOOLEAN, c \in ReasonInputs :
        LET r == approve_request(i, u, a, c, NoFault)
        IN  /\ r.err = None =>
                /\ apps[i].status = "PENDING"
                /\ r.apps[i].status = IF a THEN "APPROVED" ELSE "REJECTED"
                /\ r.apps[i].current_stage =
                      IF a THEN "SUBSCRIPTION_ASSIGNMENT" ELSE "REJECTED"
            /\ apps[i].status # "PENDING" => r.err # None /\ Same(r)
            /\ (/\ apps[i].status = "PENDING" /\ is_admin(u)
                /\ ApprovalRequestValid(a, c)) => r.err = None
    /\ (resp.op = "approve" /\ resp.code = 200) =>
            \/ /\ apps[resp.id].status = "APPROVED"
               /\ apps[resp.id].current_stage = "SUBSCRIPTION_ASSIGNMENT"
            \/ /\ apps[resp.id].status = "REJECTED"
               /\ apps[resp.id].current_stage = "REJECTED"

\* an approve answered with 400 on an application approved before
C6_Witness ==
    /\ resp.op = "approve" /\ resp.code = 400
    /\ Exists(resp.id) /\ apps[resp.id].status = "APPROVED"
    /\ apps[resp.id].approved_by # None

\* the request was created with save_as_draft = false and nothing else but
\* approve/reject has been applied to it since
CreatedPending(i) == audits[i] = <<RequestAudit("CREATE", None)>>

\* C7 as claimed: a successful approve appends exactly two timeline events,
\* and a request created with save_as_draft = false and then approved has
\* exactly three.
C7_ApproveAppendsTwo ==
    [][(/\ resp'.op = "approve" /\ resp'.code = 200
        /\ apps'[resp'.id].status = "APPROVED") =>
            LET i == resp'.id
            IN  /\ Len(timeline'[i]) = Len(timeline[i]) + 2
                /\ CreatedPending(i) => Len(timeline'[i]) = 3]_vars

\* C7 amended: a successful approve appends exactly three timeline events
\* (PENDING_APPROVAL completed, APPROVED completed, SUBSCRIPTION_ASSIGNMENT
\* in progress), and a request created with save_as_draft = false and then
\* approved has exactly five.
C7_ApproveAppendsThree ==
    [][(/\ resp'.op = "approve" /\ resp'.code = 200
        /\ apps'[resp'.id].status = "APPROVED") =>
            LET i == resp'.id
            IN  /\ timeline'[i] = timeline[i] \o
                      <<RequestTimeline("PENDING_APPROVAL", "COMPLETED"),
                        RequestTimeline("APPROVED", "COMPLETED"),
                        RequestTimeline("SUBSCRIPTION_ASSIGNMENT",
                                        "IN_PROGRESS")>>
                /\ CreatedPending(i) => Len(timeline'[i]) = 5]_vars

\* a request created as PENDING and just approved, with its five events
C7_Witness ==
    /\ resp.op = "approve" /\ resp.code = 200
    /\ apps[resp.id].status = "APPROVED"
    /\ CreatedPending(resp.id)
    /\ Len(timeline[resp.id]) = 5

\* C8: assign-subscriptions on an APPROVED application in stage
\* SUBSCRIPTION_ASSIGNMENT changes neither status, stage nor timeline while an
\* environment is left unassigned; a successful call that leaves none
\* unassigned moves it to FOUNDATION_INFRA_PROVISIONING / FOUNDATION_INFRA
\* with one COMPLETED and one IN_PROGRESS event; any call after that fails
\* and changes nothing.
C8_AssignAdvancesOnce ==
    [][(resp'.op = "assign" /\ Exists(resp'.id)) =>
        LET i == resp'.id
        IN  /\ (/\ apps[i].status = "APPROVED"
                /\ apps[i].current_stage = "SUBSCRIPTION_ASSIGNMENT") =>
                  IF \E n \in DOMAIN envs'[i] : ~envs'[i][n].is_assigned
                  THEN apps'[i] = apps[i] /\ timeline'[i] = timeline[i]
                  ELSE resp'.code = 200 =>
                        /\ apps'[i].status = "FOUNDATION_INFRA_PROVISIONING"
                        /\ apps'[i].current_stage = "FOUNDATION_INFRA"
                        /\ timeline'[i] = timeline[i] \o
                              <<RequestTimeline("SUBSCRIPTION_ASSIGNMENT",
                                                "COMPLETED"),
                                RequestTimeline("FOUNDATION_INFRA",
                                                "IN_PROGRESS")>>
            /\ apps[i].status = "FOUNDATION_INFRA_PROVISIONING" =>
                  /\ resp'.code # 200
                  /\ apps'[i] = apps[i]
                  /\ envs'[i] = envs[i]
                  /\ timeline'[i] = timeline[i]]_vars

\* an assign-subscriptions answered with 400 after the application has moved
\* to FOUNDATION_INFRA
C8_Witness ==
    /\ resp.op = "assign" /\ resp.code = 400
    /\ Exists(resp.id)
    /\ apps[resp.id].status = "FOUNDATION_INFRA_PROVISIONING"
    /\ apps[resp.id].current_stage = "FOUNDATION_INFRA"
    /\ Len(timeline[resp.id]) >= 7

\* C9: advance-stage does foundation-complete only from FOUNDATION_INFRA (to
\* INFRASTRUCTURE / INFRASTRUCTURE_PROVISIONING), infrastructure-complete only
\* from INFRASTRUCTURE (to HANDOVER / INFRASTRUCTURE_COMPLETED) and
\* handover-complete only from HANDOVER (status COMPLETED); every other
\* (action, stage) pair and every unknown action is answered with 400 and
\* leaves the store unchanged.
C9_AdvanceStageTable ==
    /\ \A i \in AppIds, u \in admin_emails, a \in Actions :
        LET r == advance_stage(i, u, a, NoFault)
            stage == apps[i].current_stage
        IN  IF a = "foundation-complete" /\ stage = "FOUNDATION_INFRA"
            THEN /\ r.err = None
                 /\ r.apps[i].current_stage = "INFRASTRUCTURE"
                 /\ r.apps[i].status = "INFRASTRUCTURE_PROVISIONING"
            ELSE IF a = "infrastructure-complete" /\ stage = "INFRASTRUCTURE"
            THEN /\ r.err = None
                 /\ r.apps[i].current_stage = "HANDOVER"
                 /\ r.apps[i].status = "INFRASTRUCTURE_COMPLETED"
            ELSE IF a = "handover-complete" /\ stage = "HANDOVER"
            THEN /\ r.err = None
                 /\ r.apps[i].current_stage = "HANDOVER"
                 /\ r.apps[i].status = "COMPLETED"
            ELSE HttpCode(r.err, 200) = 400 /\ Same(r)
    /\ (resp.op = "advance" /\ resp.code = 200) =>
            apps[resp.id].current_stage \in {"INFRASTRUCTURE", "HANDOVER"}

\* an advance-stage answered with 400 on an application that an earlier
\* advance-stage has moved to INFRASTRUCTURE
C9_Witness ==
    /\ resp.op = "advance" /\ resp.code = 400
    /\ Exists(resp.id)
    /\ apps[resp.id].current_stage = "INFRASTRUCTURE"
    /\ apps[resp.id].status = "INFRASTRUCTURE_PROVISIONING"

\* a submit of the application has succeeded
Submitted(i) ==
    \E k \in 1..Len(audits[i]) : audits[i][k].request_type = "SUBMIT"

\* C10: submit moves a DRAFT application to PENDING / PENDING_APPROVAL, not
\* editable, with one audit entry and one timeline event; every submit after
\* a successful one fails with a state error (400) and changes nothing.
C10_SubmitOnce ==
    /\ \A i \in AppIds, u \in Users :
        LET r == submit_request(i, u, NoFault)
        IN  /\ (apps[i].status = "DRAFT" /\ Authorized(i, u)) =>
                /\ r.err = None
                /\ r.apps[i].status = "PENDING"
                /\ r.apps[i].current_stage = "PENDING_APPROVAL"
                /\ ~r.apps[i].is_editable
                /\ r.audits[i] =
                      Append(audits[i], RequestAudit("SUBMIT", u))
                /\ r.timeline[i] =
                      Append(timeline[i],
                             RequestTimeline("PENDING_APPROVAL",
                                             "IN_PROGRESS"))
            /\ Submitted(i) => r.err = "ValueError" /\ Same(r)
    /\ (resp.op = "submit" /\ resp.code = 200) =>
            /\ apps[resp.id].status = "PENDING"
            /\ Submitted(resp.id)

\* a second submit answered with 400
C10_Witness ==
    /\ resp.op = "submit" /\ resp.code = 400
    /\ Exists(resp.id) /\ Submitted(resp.id)
    /\ apps[resp.id].status = "PENDING"

\* C11: cancel succeeds only for the requester or an admin on a DRAFT or
\* PENDING application; it sets CANCELLED / CANCELLED, not editable, and
\* records canceller, reason and timestamp; from every other status it fails
\* with a state error and leaves the store unchanged; an application with
\* cancellation metadata has a CANCELLED event and a CANCEL audit entry.
C11_CancelOnlyDraftOrPending ==
    /\ \A i \in AppIds, u \in Users, c \in Reasons :
        LET r == cancel_request(i, u, c, NoFault)
            open == apps[i].status \in {"DRAFT", "PENDING"}
        IN  /\ r.err = None <=> (Authorized(i, u) /\ open /\ c # "")
            /\ r.err = None =>
                r.apps[i] = [apps[i] EXCEPT !.status = "CANCELLED",
                                            !.current_stage = "CANCELLED",
                                            !.is_editable = FALSE,
                                            !.cancelled_by = u,
                                            !.cancellation_reason = c,
                                            !.cancelled_at = "set"]
            /\ r.err # None => Same(r)
            /\ (Authorized(i, u) /\ ~open /\ c # "") => r.err = "ValueError"
    /\ \A i \in AppIds :
        (\/ apps[i].cancelled_by # None
         \/ apps[i].cancellation_reason # None
         \/ apps[i].cancelled_at # None) =>
            /\ \E k \in 1..Len(timeline[i]) :
                    timeline[i][k] = RequestTimeline("CANCELLED", "COMPLETED")
            /\ \E k \in 1..Len(audits[i]) :
                    audits[i][k] = RequestAudit("CANCEL", None)

\* a second cancel answered with 400 on an application cancelled before
C11_Witness ==
    /\ resp.op = "cancel" /\ resp.code = 400
    /\ Exists(resp.id)
    /\ apps[resp.id].status = "CANCELLED"
    /\ apps[resp.id].cancelled_by = "alice@tradex.com"
    /\ apps[resp.id].cancellation_reason = "text"

\* C12: expedite succeeds only on a PENDING application not yet expedited; it
\* sets expedite_requested and leaves status and stage as they are; a second
\* expedite fails; expedite_requested never returns to false.
C12_ExpediteOnce ==
    /\ [](\A i \in AppIds, u \in Users, c \in Reasons :
            LET r == expedite_request(i, u, c, NoFault)
            IN  /\ r.err = None =>
                    /\ apps[i].status = "PENDING"
                    /\ ~apps[i].expedite_requested
                    /\ r.apps[i] =
                          [apps[i] EXCEPT !.expedite_requested = TRUE,
                                          !.expedite_reason = c]
                /\ (/\ Authorized(i, u) /\ c # ""
                    /\ apps[i].status = "PENDING"
                    /\ ~apps[i].expedite_requested) => r.err = None
                /\ apps[i].expedite_requested => r.err # None /\ Same(r))
    /\ [][\A i \in AppIds :
            apps[i].expedite_requested => apps'[i].expedite_requested]_vars

\* a second expedite answered with 400 on an expedited PENDING application
C12_Witness ==
    /\ resp.op = "expedite" /\ resp.code = 400
    /\ Exists(resp.id)
    /\ apps[resp.id].expedite_requested
    /\ apps[resp.id].status = "PENDING"

ActiveMatches(keys) ==
    {x \in StoredEntries :
        /\ EntryAt(x).duplicate_key \in keys
        /\ apps[fw[x[1]].app_id].status \notin Terminal}

\* the source application exists, is an onboarding application and has the
\* environments the payload names
ValidSource(payload) ==
    /\ Exists(payload.source_application_id)
    /\ apps[payload.source_application_id].request_type = "ONBOARDING"
    /\ \A c \in payload.environment_scopes :
            env_code_to_name(c) \in DOMAIN envs[payload.source_application_id]

\* C17: a firewall submission with a rule whose duplicate key is that of a
\* stored entry of a tracking application that is not REJECTED, CANCELLED or
\* FAILED is answered with 409, lists each such entry with its request and
\* its owning application, and persists nothing; without such an entry (the
\* first request having been cancelled, say) the submission is persisted.
C17_DuplicateRejected ==
    \A payload \in DuplicatePayloads, u \in Requesters :
        LET r == create_firewall_request(payload, u, NoFault)
            matches == ActiveMatches(PayloadKeys(payload))
        IN  /\ matches # {} =>
                /\ r.err = "DuplicateFirewallRuleError"
                /\ HttpCode(r.err, 201) = 409
                /\ Same(r)
                /\ r.duplicates =
                      {[rule |-> EntryAt(x),
                        existing_request |-> x[1],
                        application |->
                            [id |-> fw[x[1]].app_id,
                             app_code |-> apps[fw[x[1]].app_id].app_code,
                             status |-> apps[fw[x[1]].app_id].status]] :
                          x \in matches}
            /\ (matches = {} /\ ValidSource(payload)) =>
                /\ r.err = None
                /\ Len(r.apps) = Len(apps) + 1
                /\ r.fw = Append(fw, r.fw[Len(r.fw)])
                /\ r.fw[Len(r.fw)].app_id = Len(r.apps)
                /\ \A k \in PayloadKeys(payload) :
                      \E c \in DOMAIN r.fw[Len(r.fw)].rule_collections :
                        \E e \in DOMAIN
                            r.fw[Len(r.fw)].rule_collections[c].rule_entries :
                          r.fw[Len(r.fw)].rule_collections[c].rule_entries[e]
                              .duplicate_key = k

\* a second request with the key of the first one, stored after the first
\* one's tracking application was cancelled
C17_Witness ==
    /\ resp.op = "firewall" /\ resp.code = 201
    /\ Len(fw) = 2
    /\ apps[fw[1].app_id].status = "CANCELLED"
    /\ fw[1].rule_collections[1].rule_entries[1].duplicate_key
          = fw[2].rule_collections[1].rule_entries[1].duplicate_key

\* C18: no two stored rule entries, of different requests or of the same
\* one, have the same duplicate key while the tracking applications of both
\* are neither REJECTED, CANCELLED nor FAILED.
C18_ActiveKeysUnique ==
    \A x, y \in StoredEntries :
        (/\ x # y
         /\ apps[fw[x[1]].app_id].status \notin Terminal
         /\ apps[fw[y[1]].app_id].status \notin Terminal) =>
            EntryAt(x).duplicate_key # EntryAt(y).duplicate_key

\* the priorities stored for a source application and a collection type
StoredPriorities(source_application_id, collection_type) ==
    {fw[x[1]].rule_collections[x[2]].priority :
        x \in {y \in StoredEntries :
                /\ fw[y[1]].source_application_id = source_application_id
                /\ fw[y[1]].rule_collections[y[2]].collection_type
                      = collection_type}}

\* C20: a rule group without explicit priority gets the baseline of its type
\* (APPLICATION 400, NETWORK 6500, NAT 100) when the source application has
\* no collection of that type, and otherwise the previous maximum of that
\* source and type plus 100, at most 65000; a group with an explicit
\* priority is stored with exactly that priority.
C20_PriorityAllocation ==
    \A payload \in PriorityPayloads, u \in Requesters :
        LET r == create_firewall_request(payload, u, NoFault)
            src == payload.source_application_id
        IN  r.err = None =>
              /\ Len(r.fw) = Len(fw) + 1
              /\ Len(r.fw[Len(r.fw)].rule_collections)
                    = Cardinality(DOMAIN payload.rule_groups)
              /\ \A c \in DOMAIN r.fw[Len(r.fw)].rule_collections :
                  LET col == r.fw[Len(r.fw)].rule_collections[c]
                      t == col.collection_type
                      prev == StoredPriorities(src, t)
                      explicit == payload.rule_groups[t].priority
                  IN  col.priority =
                        IF explicit # NoPriority THEN explicit
                        ELSE IF prev = {}
                        THEN (CASE t = "APPLICATION" -> 400
                                [] t = "NETWORK" -> 6500
                                [] t = "NAT" -> 100)
                        ELSE IF Max(prev) + 100 > 65000 THEN 65000
                        ELSE Max(prev) + 100

\* the first and the second NETWORK group of one source application, stored
\* with 6500 and 6600
C20_Witness ==
    /\ resp.op = "firewall" /\ resp.code = 201
    /\ Len(fw) = 2
    /\ fw[1].source_application_id = fw[2].source_application_id
    /\ fw[1].rule_collections[1].collection_type = "NETWORK"
    /\ fw[1].rule_collections[1].priority = 6500
    /\ fw[2].rule_collections[1].collection_type = "NETWORK"
    /\ fw[2].rule_collections[1].priority = 6600

\* the numeric suffix of an application's app_code
Suffix(i) == apps[i].app_code.num

\* the applications created before j with the request type of j
EarlierOfType(j) ==
    {i \in AppIds : i < j /\ apps[i].request_type = apps[j].request_type}

C16_SlugsUnique ==
    /\ \A i, j \in AppIds :
        (i # j /\ apps[i].app_slug # None) =>
            apps[i].app_slug # apps[j].app_slug
    /\ \A u \in Requesters, s \in {"acme1", "beta2"}, d \in BOOLEAN :
        ~is_slug_available(s) =>
            LET r == create_request(u, s, EnvNames, d, NoFault)
            IN  r.err = "ValueError" /\ Same(r)

\* a create answered with 400 while two applications hold both slugs
C16_Witness ==
    /\ resp.op = "create" /\ resp.code = 400
    /\ \E i, j \in AppIds :
        apps[i].app_slug = "acme1" /\ apps[j].app_slug = "beta2"

\* C19: of two firewall submissions with a rule of the same duplicate key
\* that run concurrently at most one is persisted: no two stored entries of
\* different requests have the same duplicate key while the tracking
\* applications of both are neither REJECTED, CANCELLED nor FAILED.
C19_CheckAndInsertAtomic ==
    \A x, y \in StoredEntries :
        (/\ x[1] # y[1]
         /\ ActiveStatus(apps[fw[x[1]].app_id].status)
         /\ ActiveStatus(apps[fw[y[1]].app_id].status)) =>
            EntryAt(x).duplicate_key # EntryAt(y).duplicate_key

\* C21: for every source application and collection type the priorities of
\* the stored rule collections grow strictly in the order of creation (and so
\* are pairwise distinct), whether the groups named a priority or not.
C21_PrioritiesIncreasing ==
    \A i, j \in 1..Len(fw) :
        (i < j /\ fw[i].source_application_id = fw[j].source_application_id)
        => \A c \in DOMAIN fw[i].rule_collections,
              d \in DOMAIN fw[j].rule_collections :
                fw[i].rule_collections[c].collection_type
                    = fw[j].rule_collections[d].collection_type
                => fw[i].rule_collections[c].priority
                       < fw[j].rule_collections[d].priority

\* C24: the document rebuilt from the stored rule collections of a firewall
\* request, as loaded from the store in the order of their priorities, is the
\* document stored at creation: the same keys in the same order, each with the
\* same priority, action and rules.
C24_DocumentRoundTrip ==
    \A k \in 1..Len(fw) :
        \A loaded \in LoadedCollections(fw[k]) :
            _build_collection_document(loaded) = fw[k].collection_document

\* a normalised value "start-end" whose start equals its end
SingleValueRange(v) ==
    /\ Find(v, "-") # 0
    /\ int(SubSeq(v, 1, Find(v, "-") - 1))
         = int(SubSeq(v, Find(v, "-") + 1, Len(v)))

\* C22: port normalisation returns the port values without duplicates, sorted
\* as strings, a range whose start equals its end as the single port:
\* ["443", "80-80", "22,23"] gives exactly "22", "23", "443", "80".
C22_PortNormalisation ==
    (call.fn = "_normalise_port_values" /\ call.result.err = None) =>
        LET out == call.result.values
        IN  /\ \A i, j \in DOMAIN out : i < j => StrLess(out[i], out[j])
            /\ \A i \in DOMAIN out : ~SingleValueRange(out[i])
            /\ call.values = <<<<"4", "4", "3">>, <<"8", "0", "-", "8", "0">>,
                               <<"2", "2", ",", "2", "3">>>>
               => out = <<<<"2", "2">>, <<"2", "3">>, <<"4", "4", "3">>,
                          <<"8", "0">>>>

\* the full name of an environment scope code
ScopeFullName(code) ==
    CASE code = "DEV" -> "DEVELOPMENT"
      [] code = "TEST" -> "TESTING"
      [] code = "QA" -> "QA"
      [] code = "STAGE" -> "STAGING"
      [] code = "UAT" -> "UAT"
      [] code = "PROD" -> "PRODUCTION"
      [] code = "DR" -> "DR"

\* the source application is an onboarding application and every scope of
\* the payload, mapped to its full name, is the name of one of its
\* environments up to case
ScopesMatch(payload) ==
    LET src == payload.source_application_id
    IN  /\ Exists(src)
        /\ apps[src].request_type = "ONBOARDING"
        /\ \A c \in payload.environment_scopes :
            \E n \in DOMAIN envs[src] : Upper(n) = ScopeFullName(c)

TrackingCreated(n, m) ==
    (resp'.op = "firewall" /\ resp'.code = 201) =>
        /\ resp'.id = Len(apps) + 1
        /\ Len(apps') = Len(apps) + 1
        /\ apps'[resp'.id].request_type = "FIREWALL"
        /\ apps'[resp'.id].status = "PENDING"
        /\ apps'[resp'.id].current_stage = "PENDING_APPROVAL"
        /\ Len(audits'[resp'.id]) = n
        /\ Len(timeline'[resp'.id]) = m

\* C23 as stated: a successful firewall create leaves a new tracking
\* application of type FIREWALL in PENDING / PENDING_APPROVAL with exactly one
\* audit entry and exactly one timeline event.
C23_OneAuditOneEvent == [][TrackingCreated(1, 1)]_vars

\* C23 as the code has it: the tracking application has two audit entries
\* (one of create_application, one of the firewall service) and three
\* timeline events (REQUEST_RAISED and PENDING_APPROVAL of create_application,
\* PENDING_APPROVAL of the firewall service).
C23_TwoAuditsThreeEvents ==
    [][/\ TrackingCreated(2, 3)
       /\ (resp'.op = "firewall" /\ resp'.code = 201) =>
            /\ [k \in 1..3 |-> timeline'[resp'.id][k].stage]
                 = <<"REQUEST_RAISED", "PENDING_APPROVAL", "PENDING_APPROVAL">>
            /\ Len(fw') = Len(fw) + 1
            /\ fw'[Len(fw')].app_id = resp'.id]_vars

\* a firewall request just persisted
C23_Witness ==
    /\ resp.op = "firewall" /\ resp.code = 201
    /\ Len(fw) >= 1
    /\ fw[Len(fw)].app_id = resp.id
    /\ apps[resp.id].request_type = "FIREWALL"
    /\ Len(timeline[resp.id]) = 3

\* C26: a firewall create that fails after the duplicate check, a storage
\* failure while the firewall request or its rules are inserted included,
\* leaves the store as before the call: every application of type FIREWALL
\* has exactly one firewall request, its audit entries and timeline events
\* included.
C26_FirewallCreateAtomic ==
    \A i \in AppIds :
        apps[i].request_type = "FIREWALL" =>
            Cardinality({k \in 1..Len(fw) : fw[k].app_id = i}) = 1

\* C27: submit, update, cancel and expedite by a caller who is neither the
\* requester nor an admin raise PermissionError (403), never a state error,
\* whatever the status of the application, and change nothing.
C27_PermissionBeforeState ==
    \A i \in AppIds, u \in Users :
        ~Authorized(i, u) =>
            \A r \in {submit_request(i, u, NoFault),
                      cancel_request(i, u, "text", NoFault),
                      expedite_request(i, u, "text", NoFault)}
                     \cup {update_request(i, u, s, EnvNames, d, NoFault) :
                              s \in Slugs, d \in BOOLEAN} :
                /\ r.err = "PermissionError"
                /\ HttpCode(r.err, 200) = 403
                /\ Same(r)

\* C28: assign-subscriptions naming an environment that already has a
\* subscription fails with an error that reports the conflict and leaves the
\* subscription id and the assigner of that environment as they are.
C28_AssignedIsConflict ==
    \A i \in AppIds, u \in admin_emails, sub \in SubIds \cup {"sub-2"} :
        \A n \in DOMAIN envs[i] :
            envs[i][n].is_assigned =>
                LET r == assign_subscriptions(
                             i, u, <<Assignment(<<i, n>>, sub)>>, NoFault)
                IN  /\ r.err # None
                    /\ r.envs[i][n] = envs[i][n]

\* C29: every successful create, submit, update, approve or reject,
\* assign-subscriptions that advances the stage, advance-stage, fail, cancel
\* and expedite appends at least one audit entry for the application.
C29_TransitionsAudited ==
    [][(/\ resp'.code \in {200, 201}
        /\ resp'.op \in {"create", "submit", "update", "approve", "assign",
                         "advance", "fail", "cancel", "expedite"}
        /\ resp'.op = "assign" =>
              apps'[resp'.id].current_stage # apps[resp'.id].current_stage)
       => LenAt(audits', resp'.id) > LenAt(audits, resp'.id)]_vars

\* C30: an operation that changes current_stage appends a timeline event of
\* the new stage, so the current_stage of every application is the stage of
\* one of its timeline events.
C30_StageInTimeline ==
    \A i \in AppIds :
        \E k \in 1..Len(timeline[i]) :
            timeline[i][k].stage = apps[i].current_stage

\* C31: a rejection without a reason is refused: on a PENDING application an
\* approve/reject call of an administrator with approved = false and the
\* rejection reason absent, null or empty fails and leaves the application
\* PENDING with no timeline event added.
C31_RejectionNeedsReason ==
    \A i \in AppIds, u \in admin_emails, c \in {"absent", "null", "empty"} :
        apps[i].status = "PENDING" =>
            LET r == approve_request(i, u, FALSE, c, NoFault)
            IN  /\ r.err # None
                /\ r.apps[i].status = "PENDING"
                /\ r.timeline[i] = timeline[i]

IsPrefix(s, t) == Len(s) <= Len(t) /\ SubSeq(t, 1, Len(s)) = s

\* C32: timeline events and audit entries are append-only: every step keeps
\* every application, and the timeline and the audit entries an application
\* had before the step are a prefix of those it has after it.
C32_AppendOnly ==
    [][/\ Len(timeline) <= Len(timeline')
       /\ Len(audits) <= Len(audits')
       /\ \A i \in 1..Len(timeline) : IsPrefix(timeline[i], timeline'[i])
       /\ \A i \in 1..Len(audits) : IsPrefix(audits[i], audits'[i])]_vars

\* a cancellation has been recorded after earlier events and audit entries
C32_Witness ==
    /\ resp.op = "cancel" /\ resp.code = 200
    /\ Len(timeline[resp.id]) >= 2
    /\ Len(audits[resp.id]) >= 2

\* C33: the app_code and the requester email of an application never change
\* after creation: no step of update, submit, approve/reject,
\* assign-subscriptions, advance-stage, fail, cancel or expedite alters them.
C33_CodeAndRequesterImmutable ==
    [][\A i \in AppIds :
          /\ i <= Len(apps')
          /\ apps'[i].app_code = apps[i].app_code
          /\ apps'[i].requested_by = apps[i].requested_by]_vars

\* an administrator's update of a draft has been stored
C33_Witness ==
    /\ resp.op = "update" /\ resp.code = 200
    /\ Len(audits[resp.id]) >= 2
    /\ apps[resp.id].requested_by = "alice@tradex.com"

\* C34: approve/reject, assign-subscriptions, advance-stage and fail are
\* admin-only: for every application in every reachable status, a call by a
\* caller outside the admin list is answered with 403 and changes no
\* application, environment, audit or timeline state.
C34_AdminOnly ==
    \A i \in AppIds, u \in Users \ admin_emails :
        /\ \A a \in BOOLEAN, c \in ReasonInputs :
                LET r == approve_request(i, u, a, c, NoFault)
                IN  HttpCode(r.err, 200) = 403 /\ Same(r)
        /\ \A as \in AssignmentInputs :
                LET r == assign_subscriptions(i, u, as, NoFault)
                IN  HttpCode(r.err, 200) = 403 /\ Same(r)
        /\ \A a \in Actions :
                LET r == advance_stage(i, u, a, NoFault)
                IN  HttpCode(r.err, 200) = 403 /\ Same(r)
        /\ LET r == fail_stage(i, u, NoFault)
           IN  HttpCode(r.err, 200) = 403 /\ Same(r)

\* an admin-only call has been refused with 403 on an approved application
C34_Witness ==
    /\ resp.op \in {"approve", "assign", "advance", "fail"}
    /\ resp.code = 403
    /\ Exists(resp.id) /\ apps[resp.id].status = "APPROVED"

\* C35: the source application is optional: in every reachable state the
\* firewall request of the integration test (source_application_id null,
\* scopes DEV and TEST, one application, one network and one NAT rule group)
\* is answered with 201 and stores a tracking application with an FW code, a
\* status and a firewall request with a generated collection document.
C35_SourceOptional ==
    \A u \in Requesters :
        LET r == create_firewall_request(IntegrationPayload, u, NoFault)
        IN  /\ HttpCode(r.err, 201) = 201
            /\ Len(r.apps) = Len(apps) + 1
            /\ r.apps[Len(r.apps)].app_code.prefix = "FW"
            /\ r.apps[Len(r.apps)].status \in RequestStatus
            /\ Len(r.fw) = Len(fw) + 1
            /\ Len(r.fw[Len(r.fw)].collection_document) = 3

\* C36: in every reachable state an application is editable only as a
\* draft: is_editable is true only if status is DRAFT.
C36_EditableOnlyDraft ==
    \A i \in AppIds : apps[i].is_editable => apps[i].status = "DRAFT"

\* an entry that names no environment of application i
NamesNoEnvironment(i, a) ==
    \/ a.env_id = NoEnv
    \/ a.env_id[1] # i
    \/ a.env_id[2] \notin DOMAIN envs[i]

\* C37: an application is at stage FOUNDATION_INFRA only if it has at least
\* one environment and each of its environments has a subscription assigned,
\* and an assign-subscriptions call whose entries all name environments that
\* do not belong to the application advances neither stage nor status.
C37_AdvanceNeedsAssignedEnvironments ==
    /\ \A i \in AppIds :
        apps[i].current_stage = "FOUNDATION_INFRA" =>
            /\ DOMAIN envs[i] # {}
            /\ \A n \in DOMAIN envs[i] : envs[i][n].is_assigned
    /\ \A i \in AppIds, u \in admin_emails, as \in AssignmentInputs :
        (\A k \in 1..Len(as) : NamesNoEnvironment(i, as[k])) =>
            LET r == assign_subscriptions(i, u, as, NoFault)
            IN  /\ r.apps[i].current_stage = apps[i].current_stage
                /\ r.apps[i].status = apps[i].status

HasEvent(i, stage) ==
    \E k \in 1..Len(timeline[i]) : timeline[i][k].stage = stage

\* C38: when approve and cancel run concurrently on the same PENDING
\* application, at most one of them succeeds: no application is APPROVED
\* with cancellation metadata set, no timeline holds both an approval event
\* and a cancellation event, and a cancel is answered with success only for
\* an application that has no approval event.
C38_ApproveCancelExclusive ==
    /\ \A i \in AppIds :
        /\ ~(apps[i].status = "APPROVED" /\ apps[i].cancelled_by # None)
        /\ ~(HasEvent(i, "APPROVED") /\ HasEvent(i, "CANCELLED"))
    /\ (resp.op = "cancel" /\ resp.code = 200) =>
            ~HasEvent(resp.id, "APPROVED")

\* C39: in every reachable state the priority of every stored rule
\* collection is an integer in [100, 65000] that is a multiple of 100,
\* whether it was supplied explicitly, taken from the baseline or allocated
\* as previous maximum + 100 with the cap.
C39_StoredPrioritiesValid ==
    \A f \in 1..Len(fw) :
        \A c \in 1..Len(fw[f].rule_collections) :
            LET priority == fw[f].rule_collections[c].priority
            IN  /\ priority \in 100..65000
                /\ priority % 100 = 0

\* an explicit 200 is stored, and the next request of the same source was
\* allocated 300
C39_Witness ==
    /\ resp.op = "firewall" /\ resp.code = 201
    /\ Len(fw) = 2
    /\ fw[1].source_application_id = fw[2].source_application_id
    /\ \E c \in 1..Len(fw[1].rule_collections) :
            /\ fw[1].rule_collections[c].collection_type = "NAT"
            /\ fw[1].rule_collections[c].priority = 200
    /\ \E c \in 1..Len(fw[2].rule_collections) :
            /\ fw[2].rule_collections[c].collection_type = "NAT"
            /\ fw[2].rule_collections[c].priority = 300

Range(values) == {values[k] : k \in 1..Len(values)}

SameSet(v, w) == Len(v) = Len(w) /\ Range(v) = Range(w)

\* rules that differ at most in the case of the name and in the order of the
\* elements of their lists
SameUpToOrderAndCase(a, b) ==
    /\ Lower(a.name) = Lower(b.name)
    /\ SameSet(a.source_ip_addresses, b.source_ip_addresses)
    /\ SameSet(a.destination_fqdns, b.destination_fqdns)
    /\ SameSet(a.destination_addresses, b.destination_addresses)
    /\ SameSet(a.destination_ip_addresses, b.destination_ip_addresses)
    /\ a.destination_address = b.destination_address

\* the destination columns of the rule entry stored for a rule
StoredDestination(collection_type, rule) ==
    CASE collection_type = "APPLICATION" ->
            <<rule.destination_addresses, rule.destination_fqdns>>
      [] collection_type = "NETWORK" ->
            <<rule.destination_ip_addresses, rule.destination_fqdns>>
      [] OTHER -> <<<<rule.destination_address>>, <<>>>>

KeysBuilt == call.fn = "_build_duplicate_key" /\ call.keys # NoKeys

====
